---- MODULE Spec2Model ----
(***************************************************************************)
(* siteguardAI: the violation rule engine (app/core/vision/detector.py),   *)
(* the video and live stream loops (app/web/streamlit_app*.py) and ONVIF   *)
(* camera discovery and stream resolution (scripts/discovery.py).          *)
(*                                                                         *)
(* Each subsystem has its own specification over its own variables:        *)
(*   SpecRule     the rule engine called on a list of detections           *)
(*   SpecFile     the three uploaded-video loops                           *)
(*   SpecLive     the webcam and network-camera loops                      *)
(*   SpecDisc     discover_cameras with its WS-Discovery worker thread     *)
(*   SpecInfo     get_camera_info with its RTSP fallback                   *)
(* Text is modelled as a tuple of one-character strings so that lower()    *)
(* and the substring test `in` are computed, not assumed.                  *)
(***************************************************************************)
EXTENDS Integers, Sequences, FiniteSets, TLC

VARIABLES
    \* ---- rule engine (detector.py)
    detections,            \* the list handed to _check_violations
    results,               \* the lists returned by the calls made so far
    now,                   \* the wall clock read by datetime.now()
    total_inferences,      \* PPEDetector.total_inferences
    violations_detected,   \* PPEDetector.violations_detected
    \* ---- stream loops (streamlit_app.py, streamlit_app_enhanced.py)
    source,                \* which loop runs (see FileSources, LiveSources)
    pc,                    \* where the page's code is
    cap_open,              \* cap is opened and not yet released
    n_frames,              \* frames the source delivers before read fails
    frame_skip,            \* "Process every N frames"
    max_frames,            \* "Max frames to process"
    frame_count,
    frames_processed,
    last_annotated,
    out,                   \* frames written to the writer / shown on the page
    end_cause,             \* which statement ended the loop
    clock,                 \* time.time(), in ticks
    start_time,
    last_frame_time,
    fps_target,            \* "Target FPS"
    stream_on,             \* st.session_state['webcam_stream' / 'onvif_stream']
    has_detector,          \* st.session_state.detector is set
    read_failures,         \* reads of a live source that returned no frame
    alert,                 \* the last send_violation_alert call of the loop
    \* ---- ONVIFDiscovery.discover_cameras (scripts/discovery.py)
    timeout,               \* the timeout argument, in ticks
    m_pc,                  \* where the calling thread is
    t_pc,                  \* where the _ws_discovery thread is
    dclock,                \* time.time(), in ticks
    join_deadline,         \* when discovery_thread.join(timeout + 1) gives up
    ws_start_time,         \* start_time of the receive loop
    recv_deadline,         \* when the pending recvfrom times out
    m_deadline,            \* when the pending connect_ex times out
    known_i,               \* index into camera_ips
    local_net,             \* network_prefix of the local address
    cameras,               \* _scan_local_network's list
    discovered_cameras,    \* self.discovered_cameras
    checked_len,           \* len(self.discovered_cameras) as read at the test
    scan_ran,              \* _scan_local_network was called
    \* ---- ONVIFDiscovery.get_camera_info (scripts/discovery.py)
    i_pc,                  \* where the call is
    onvif_step,            \* which call of the ONVIF sequence is next
    raised,                \* the exception that left the try block
    n_profiles,            \* profiles of GetProfiles not yet asked for a URI
    stream_uris,
    uri_errors,            \* exceptions swallowed in the loop over profiles
    probe_i,               \* position in the loops of _try_common_rtsp_urls
    probed,                \* the URLs opened so far
    info_result,           \* the dict returned
    \* ---- frames drawn (detector.py _annotate_image, the webcam page)
    drawn,                 \* what was drawn on each frame so far
    \* ---- PPEDetector.detect, detect_batch, metrics (detector.py)
    det_in,                \* what model.predict gave the last detect call
    det_out,               \* what the last detect call returned or raised
    completed,             \* detect calls completed since the last reset
    batch_in,              \* the images of the last detect_batch call
    batch_out,             \* what the last detect_batch call returned or raised
    metrics,               \* what the last get_metrics call returned
    users,                 \* the ids of the rows of table users
    reports,               \* the rows of table reports, by id
    db_violations,         \* the rows of table violations, by id
    detection_history,     \* the rows of table detection_history, by id
    deleted,               \* the rows the last commit removed, if it was a delete
    s_pc,                  \* where the thread is in a get_session block
    s_body,                \* what the body of the block does
    s_health,              \* whether the block is the one of health_check
    s_conn,                \* whether the session holds a pooled connection
    s_raised,              \* whether an exception is propagating out of the block
    s_log,                 \* what get_session did to the session of the last block
    checked_out,           \* pool.checkedout()
    blocks,                \* the get_session blocks entered so far
    raised_blocks,         \* how many of them were left by an exception
    health,                \* what the last health_check returned
    scanner,               \* the network scan that is running
    scan_submitted,        \* the connection attempts the scan has issued
    scan_queued,           \* the attempts waiting in the executor's queue
    scan_running,          \* the attempts in flight
    st_pc,                 \* where the video loop is
    st_frame,              \* frame_count of the video loop
    st_fps,                \* fps of the video
    st_created,            \* results.violations as _check_violations returned them
    st_held,               \* results.violations as the DetectionResult holds them now
    all_violations,        \* the violations the loop has stored
    u_pc,                  \* where stream resolution is
    cam_ip,                \* the address get_camera_info is called with
    cam_user,              \* the user name it is called with
    cam_password,          \* the password it is called with
    device_uri,            \* str(uri.Uri), the device's answer to GetStreamUri
    complete_url,          \* the URL stream resolution produced
    auth_url               \* RTSPCamera.auth_url, the URL handed to cv2.VideoCapture

ruleVars == <<detections, results, now, total_inferences, violations_detected>>
fileOnly == <<frame_skip, max_frames, frames_processed, last_annotated>>
liveOnly == <<clock, start_time, last_frame_time, fps_target, stream_on,
              has_detector, read_failures, alert>>
streamVars == <<source, pc, cap_open, n_frames, frame_count, out, end_cause,
                fileOnly, liveOnly>>
discVars == <<timeout, m_pc, t_pc, dclock, join_deadline, ws_start_time,
              recv_deadline, m_deadline, known_i, local_net, cameras,
              discovered_cameras, checked_len, scan_ran>>
infoVars == <<i_pc, onvif_step, raised, n_profiles, stream_uris, uri_errors,
              probe_i, probed, info_result>>
annotVars == <<drawn>>
detVars == <<det_in, det_out, completed, batch_in, batch_out, metrics>>
dbVars == <<users, reports, db_violations, detection_history, deleted>>
sessVars == <<s_pc, s_body, s_health, s_conn, s_raised, s_log, checked_out,
              blocks, raised_blocks, health>>
scanVars == <<scanner, scan_submitted, scan_queued, scan_running>>
storeVars == <<st_pc, st_frame, st_fps, st_created, st_held, all_violations>>
urlVars == <<u_pc, cam_ip, cam_user, cam_password, device_uri, complete_url,
             auth_url>>
vars == <<ruleVars, streamVars, discVars, infoVars, annotVars, detVars,
          dbVars, sessVars, scanVars, storeVars, urlVars>>

\* what an action of one subsystem leaves alone
notRule == <<streamVars, discVars, infoVars, annotVars, detVars, dbVars,
             sessVars, scanVars, storeVars, urlVars>>
notStream == <<ruleVars, discVars, infoVars, annotVars, detVars, dbVars,
               sessVars, scanVars, storeVars, urlVars>>
notDisc == <<ruleVars, streamVars, infoVars, annotVars, detVars, dbVars,
             sessVars, scanVars, storeVars, urlVars>>
notInfo == <<ruleVars, streamVars, discVars, annotVars, detVars, dbVars,
             sessVars, scanVars, storeVars, urlVars>>
notAnnot == <<ruleVars, streamVars, discVars, infoVars, detVars, dbVars,
              sessVars, scanVars, storeVars, urlVars>>
notDet == <<detections, results, now, streamVars, discVars, infoVars,
            annotVars, dbVars, sessVars, scanVars, storeVars, urlVars>>
notDb == <<ruleVars, streamVars, discVars, infoVars, annotVars, detVars,
           sessVars, scanVars, storeVars, urlVars>>
notSess == <<ruleVars, streamVars, discVars, infoVars, annotVars, detVars,
             dbVars, scanVars, storeVars, urlVars>>
notScan == <<ruleVars, streamVars, discVars, infoVars, annotVars, detVars,
             dbVars, sessVars, storeVars, urlVars>>
notStore == <<ruleVars, streamVars, discVars, infoVars, annotVars, detVars,
              dbVars, sessVars, scanVars, urlVars>>
notUrl == <<ruleVars, streamVars, discVars, infoVars, annotVars, detVars,
            dbVars, sessVars, scanVars, storeVars>>

---------------------------------------------------------------------------
(* Bounds of the rule-engine model *)
MaxDets == 2
MaxCalls == 2
\* the clock advances by one of these between two reads
Ticks == {0, 1}

(* Text *)
UpperChars == <<"A","B","C","D","E","F","G","H","I","J","K","L","M",
                "N","O","P","Q","R","S","T","U","V","W","X","Y","Z">>
LowerChars == <<"a","b","c","d","e","f","g","h","i","j","k","l","m",
                "n","o","p","q","r","s","t","u","v","w","x","y","z">>

LowerChar(c) ==
    IF \E i \in 1..Len(UpperChars) : UpperChars[i] = c
    THEN LowerChars[CHOOSE i \in 1..Len(UpperChars) : UpperChars[i] = c]
    ELSE c

\* str.lower()
Lower(s) == [i \in 1..Len(s) |-> LowerChar(s[i])]

\* sub in s
Contains(sub, s) ==
    \E i \in 1..(Len(s) - Len(sub) + 1) : SubSeq(s, i, i + Len(sub) - 1) = sub

Range(s) == {s[i] : i \in 1..Len(s)}

\* PPE_CLASSES, the categories the rule engine and its callers use
PPE_CLASSES ==
    [hardhat |-> << <<"H","a","r","d","h","a","t">>,
                    <<"H","a","r","d"," ","H","a","t">>,
                    <<"H","e","l","m","e","t">> >>,
     vest    |-> << <<"S","a","f","e","t","y"," ","V","e","s","t">>,
                    <<"V","e","s","t">>,
                    <<"H","i","g","h","-","V","i","s","i","b","i","l","i","t","y"," ","V","e","s","t">> >>,
     mask    |-> << <<"M","a","s","k">>,
                    <<"F","a","c","e"," ","M","a","s","k">>,
                    <<"R","e","s","p","i","r","a","t","o","r">> >>,
     gloves  |-> << <<"G","l","o","v","e","s">>,
                    <<"S","a","f","e","t","y"," ","G","l","o","v","e","s">> >>,
     goggles |-> << <<"G","o","g","g","l","e","s">>,
                    <<"S","a","f","e","t","y"," ","G","l","a","s","s","e","s">>,
                    <<"E","y","e"," ","P","r","o","t","e","c","t","i","o","n">> >>,
     boots   |-> << <<"S","a","f","e","t","y"," ","B","o","o","t","s">>,
                    <<"S","t","e","e","l"," ","T","o","e"," ","B","o","o","t","s">> >>,
     person  |-> << <<"P","e","r","s","o","n">>,
                    <<"W","o","r","k","e","r">>,
                    <<"H","u","m","a","n">> >>]

\* VIOLATION_RULES
VIOLATION_RULES ==
    [no_hardhat |-> "Worker detected without hardhat",
     no_vest    |-> "Worker detected without safety vest"]

\* The class names a model may report (model.names), as drawn for the inputs
ClassNames ==
    { <<"P","e","r","s","o","n">>,
      <<"W","o","r","k","e","r">>,
      <<"H","a","r","d","h","a","t">>,
      <<"h","e","l","m","e","t">>,
      <<"N","O","-","H","a","r","d","h","a","t">>,
      <<"S","a","f","e","t","y"," ","V","e","s","t">>,
      <<"M","a","s","k">> }

\* Detection (class_name, confidence in hundredths)
Confidences == {90}
Detection == [class_name : ClassNames, confidence : Confidences]

DetectionLists == UNION {[1..n -> Detection] : n \in 0..MaxDets}

\* the literal 'person' of the has_person test
PersonLiteral == <<"p","e","r","s","o","n">>

has_person(detected_classes) ==
    \E cls \in detected_classes : Contains(PersonLiteral, cls)

has_hardhat(detected_classes) ==
    \E cls \in detected_classes :
        \E h \in Range(PPE_CLASSES.hardhat) : Contains(Lower(h), cls)

has_vest(detected_classes) ==
    \E cls \in detected_classes :
        \E v \in Range(PPE_CLASSES.vest) : Contains(Lower(v), cls)

Violation(type, osha, t) ==
    [type |-> type, severity |-> "high", description |-> VIOLATION_RULES[type],
     osha_standard |-> osha, confidence |-> 95, timestamp |-> t]

\* A mutant: the vest rule nested under the hardhat rule
check_violations_nested(dets, t1, t2) ==
    LET detected_classes == {Lower(dets[i].class_name) : i \in 1..Len(dets)}
    IN  IF has_person(detected_classes) /\ ~has_hardhat(detected_classes)
        THEN <<Violation("no_hardhat", "1926.100", t1)>>
             \o (IF ~has_vest(detected_classes)
                 THEN <<Violation("no_vest", "1926.201", t2)>> ELSE <<>>)
        ELSE <<>>

\* A mutant: the clock reading also written into the description
check_violations_stamped(dets, t1, t2) ==
    LET detected_classes == {Lower(dets[i].class_name) : i \in 1..Len(dets)}
        v(type, osha, t) == [Violation(type, osha, t)
                               EXCEPT !.description = <<VIOLATION_RULES[type], t>>]
    IN  IF has_person(detected_classes)
        THEN (IF ~has_hardhat(detected_classes)
              THEN <<v("no_hardhat", "1926.100", t1)>> ELSE <<>>)
             \o (IF ~has_vest(detected_classes)
                 THEN <<v("no_vest", "1926.201", t2)>> ELSE <<>>)
        ELSE <<>>

\* PPEDetector._check_violations; t1 and t2 are the two datetime.now() reads
check_violations(dets, t1, t2) ==
    LET detected_classes == {Lower(dets[i].class_name) : i \in 1..Len(dets)}
    IN  IF has_person(detected_classes)
        THEN (IF ~has_hardhat(detected_classes)
              THEN <<Violation("no_hardhat", "1926.100", t1)>> ELSE <<>>)
             \o (IF ~has_vest(detected_classes)
                 THEN <<Violation("no_vest", "1926.201", t2)>> ELSE <<>>)
        ELSE <<>>

---------------------------------------------------------------------------
(* Frames and the state of a page before a stream starts *)

NoFrame == [kind |-> "none", index |-> 0]
Raw(i) == [kind |-> "raw", index |-> i]
\* DetectionResult.annotated_image of the frame read as number i
Annotated(i) == [kind |-> "annotated", index |-> i]

\* the live loops' own variables before a live stream starts
NoAlert == [frame |-> 0, sent_at |-> 0, delivered_at |-> 0, resumed_at |-> 0]

LiveIdle ==
    /\ clock = 0
    /\ start_time = 0
    /\ last_frame_time = 0
    /\ fps_target = 1
    /\ stream_on = FALSE
    /\ has_detector = TRUE
    /\ read_failures = 0
    /\ alert = NoAlert

StreamIdle ==
    /\ source = "none"
    /\ pc = "start"
    /\ cap_open = FALSE
    /\ n_frames = 0
    /\ frame_skip = 1
    /\ max_frames = 0
    /\ frame_count = 0
    /\ frames_processed = 0
    /\ last_annotated = NoFrame
    /\ out = <<>>
    /\ end_cause = "none"
    /\ LiveIdle

\* ONVIFDiscovery before discover_cameras is called
DiscIdle ==
    /\ timeout = 0
    /\ m_pc = "idle"
    /\ t_pc = "idle"
    /\ dclock = 0
    /\ join_deadline = 0
    /\ ws_start_time = 0
    /\ recv_deadline = 0
    /\ m_deadline = 0
    /\ known_i = 0
    /\ local_net = "none"
    /\ cameras = <<>>
    /\ discovered_cameras = <<>>
    /\ checked_len = 0
    /\ scan_ran = FALSE

NoException == [type |-> "none", code |-> <<>>, message |-> <<>>]
NoResult == [error |-> "pending", port |-> 0, stream_uris |-> <<>>]

InfoIdle ==
    /\ i_pc = "idle"
    /\ onvif_step = 0
    /\ raised = NoException
    /\ n_profiles = 0
    /\ stream_uris = <<>>
    /\ uri_errors = {}
    /\ probe_i = 0
    /\ probed = <<>>
    /\ info_result = NoResult

AnnotIdle == drawn = <<>>

NoEngineOutput == [kind |-> "none", cls |-> <<>>]
NoReturn == [status |-> "none", error |-> "", detections |-> <<>>,
             violations |-> <<>>]
NoBatchReturn == [status |-> "none", error |-> "", results |-> <<>>]
NoMetrics == [called |-> FALSE]

DetIdle ==
    /\ det_in = NoEngineOutput
    /\ det_out = NoReturn
    /\ completed = 0
    /\ batch_in = <<>>
    /\ batch_out = NoBatchReturn
    /\ metrics = NoMetrics

\* an empty table
NoRows == <<>>

\* the last commit was not one of a session.delete
NoDelete == [table |-> "none", id |-> "none", removed |-> {}]

\* the database after create_tables
DbIdle ==
    /\ users = {}
    /\ reports = NoRows
    /\ db_violations = NoRows
    /\ detection_history = NoRows
    /\ deleted = NoDelete

\* nothing done to a session yet
NoSessionLog == [committed |-> FALSE, rolled_back |-> FALSE, closed |-> FALSE,
                 raised |-> FALSE]

\* the DatabaseManager after construction: no block entered, no connection
\* checked out of the pool
SessIdle ==
    /\ s_pc = "idle"
    /\ s_body = "none"
    /\ s_health = FALSE
    /\ s_conn = FALSE
    /\ s_raised = FALSE
    /\ s_log = NoSessionLog
    /\ checked_out = 0
    /\ blocks = 0
    /\ raised_blocks = 0
    /\ health = "none"

\* no network scan called yet
ScanIdle ==
    /\ scanner = "none"
    /\ scan_submitted = 0
    /\ scan_queued = 0
    /\ scan_running = 0

\* no video opened yet
StoreIdle ==
    /\ st_pc = "idle"
    /\ st_frame = 0
    /\ st_fps = 0
    /\ st_created = <<>>
    /\ st_held = <<>>
    /\ all_violations = <<>>

\* no stream resolved yet
UrlIdle ==
    /\ u_pc = "idle"
    /\ cam_ip = <<>>
    /\ cam_user = <<>>
    /\ cam_password = <<>>
    /\ device_uri = <<>>
    /\ complete_url = <<>>
    /\ auth_url = <<>>

---------------------------------------------------------------------------
(* The rule engine *)

\* the detector before any call
RuleIdle ==
    /\ results = <<>>
    /\ now = 0
    /\ total_inferences = 0
    /\ violations_detected = 0

InitRule ==
    /\ detections \in DetectionLists
    /\ RuleIdle
    /\ StreamIdle
    /\ DiscIdle
    /\ InfoIdle
    /\ AnnotIdle
    /\ DetIdle
    /\ DbIdle
    /\ UrlIdle
    /\ StoreIdle
    /\ ScanIdle
    /\ SessIdle

\* one call of _check_violations(detections); the clock moves between reads
CheckViolations ==
    /\ Len(results) < MaxCalls
    /\ \E d1 \in Ticks : \E d2 \in Ticks :
         /\ results' = Append(results, check_violations(detections, now + d1,
                                                         now + d1 + d2))
         /\ now' = now + d1 + d2
    /\ UNCHANGED <<detections, total_inferences, violations_detected>>
    /\ UNCHANGED notRule

NextRule == CheckViolations

SpecRule == InitRule /\ [][NextRule]_vars

---------------------------------------------------------------------------
(* The rule engine's claims *)

\* a class name belongs to a category of PPE_CLASSES: case-insensitive
\* substring match against the category's synonyms
Classified(class_name, category) ==
    \E syn \in Range(PPE_CLASSES[category]) :
        Contains(Lower(syn), Lower(class_name))

AnyClassified(dets, category) ==
    \E i \in 1..Len(dets) : Classified(dets[i].class_name, category)

Types(r) == [i \in 1..Len(r) |-> r[i].type]

\* C1: every returned list holds a no_hardhat violation iff some detection is
\* classified as person and none as hardhat, and a no_vest violation iff some
\* detection is classified as person and none as vest.
C1_Claim ==
    \A k \in 1..Len(results) :
        /\ ("no_hardhat" \in Range(Types(results[k])))
             <=> (AnyClassified(detections, "person")
                  /\ ~AnyClassified(detections, "hardhat"))
        /\ ("no_vest" \in Range(Types(results[k])))
             <=> (AnyClassified(detections, "person")
                  /\ ~AnyClassified(detections, "vest"))

\* C22: person is matched like hardhat and vest, against every synonym of the
\* table: a list with a detection named by a person synonym (Person, Worker,
\* Human) is evaluated as one with a person in it, so the result is empty
\* only if a hardhat and a vest are among the detections too.
C22_Claim ==
    \A k \in 1..Len(results) :
        (\E i \in 1..Len(detections) :
            \E syn \in Range(PPE_CLASSES.person) :
                Contains(Lower(syn), Lower(detections[i].class_name)))
        => \/ results[k] # <<>>
           \/ /\ AnyClassified(detections, "hardhat")
              /\ AnyClassified(detections, "vest")

LowerNames(dets) == [i \in 1..Len(dets) |-> Lower(dets[i].class_name)]

\* C2: no person among the detections (the empty list included) gives the
\* empty list; otherwise at most one violation per required category, with
\* no_hardhat before no_vest; [person, hardhat] gives exactly [no_vest] and
\* [person] gives exactly [no_hardhat, no_vest].
C2_Evaluate ==
    \A k \in 1..Len(results) :
        /\ ~AnyClassified(detections, "person") => results[k] = <<>>
        /\ Types(results[k]) \in {<<>>, <<"no_hardhat">>, <<"no_vest">>,
                                  <<"no_hardhat", "no_vest">>}
        /\ LowerNames(detections) = <<PersonLiteral, Lower(PPE_CLASSES.hardhat[1])>>
             => Types(results[k]) = <<"no_vest">>
        /\ LowerNames(detections) = <<PersonLiteral>>
             => Types(results[k]) = <<"no_hardhat", "no_vest">>

C2_Witness ==
    /\ Len(results) = MaxCalls
    /\ LowerNames(detections) = <<PersonLiteral, Lower(PPE_CLASSES.hardhat[1])>>
    /\ Types(results[1]) = <<"no_vest">>

\* a violation list without its timestamps
StripTime(r) ==
    [i \in 1..Len(r) |->
        [f \in (DOMAIN r[i]) \ {"timestamp"} |-> r[i][f]]]

\* C3 as stated: two calls on the same list return lists equal in every field.
C3_Claim ==
    \A i, j \in 1..Len(results) : results[i] = results[j]

\* C3 as amended: two calls on the same list return lists equal in every
\* field but the timestamp, which each call reads from the wall clock; the
\* call leaves the detector's retained counters as they were.
C3_PureButClock ==
    /\ \A i, j \in 1..Len(results) : StripTime(results[i]) = StripTime(results[j])
    /\ total_inferences = 0
    /\ violations_detected = 0

C3_Witness ==
    /\ Len(results) >= 2
    /\ results[1] # results[2]
    /\ StripTime(results[1]) = StripTime(results[2])

---------------------------------------------------------------------------
(* The uploaded-video loops:                                               *)
(*   app_video    streamlit_app.py, "Analyze Video"                        *)
(*   enh_process  streamlit_app_enhanced.py, "Process Video"               *)
(*   enh_analyze  streamlit_app_enhanced.py, "Analyze Video"               *)

FileSources == {"app_video", "enh_process", "enh_analyze"}
\* the two loops that stop after max_frames processed frames
CappedSources == {"app_video", "enh_analyze"}

(* Bounds of the stream model *)
MaxFileFrames == 11
MaxSkip == 3
MaxMaxFrames == 11
\* min_value of "Max frames to process"
MinMaxFrames == 10

\* What detector.detect(frame, annotate=True) does on one frame: it raises,
\* or returns a result (always with an annotated image) holding no detection
\* or some detection that passes the page's confidence filter.
DetectOutcomes == {"raise", "no_detection", "detection"}

\* The frame's processing raises out of the loop body: detect itself, or the
\* read of detection.compliant, an attribute Detection does not have.
FileBodyRaises(src, outcome) ==
    \/ outcome = "raise"
    \/ src = "enh_process" /\ outcome = "detection"

\* The spec's session states
SessionState ==
    CASE pc = "start" -> "Idle"
      [] pc = "loop" -> "Running"
      [] pc = "done" -> "Idle"
      [] OTHER -> "Failed"

InitFile ==
    /\ detections = <<>>
    /\ RuleIdle
    /\ source \in FileSources
    /\ pc = "start"
    /\ cap_open = FALSE
    /\ n_frames \in 0..MaxFileFrames
    /\ frame_skip \in 1..MaxSkip
    /\ max_frames \in (IF source \in CappedSources
                       THEN MinMaxFrames..MaxMaxFrames ELSE {0})
    /\ frame_count = 0
    /\ frames_processed = 0
    /\ last_annotated = NoFrame
    /\ out = <<>>
    /\ end_cause = "none"
    /\ LiveIdle
    /\ DiscIdle
    /\ InfoIdle
    /\ AnnotIdle
    /\ DetIdle
    /\ DbIdle
    /\ UrlIdle
    /\ StoreIdle
    /\ ScanIdle
    /\ SessIdle

\* cap = cv2.VideoCapture(video_path), up to the loop's first test
FileOpen ==
    /\ pc = "start"
    /\ source \in FileSources
    /\ \E opened \in BOOLEAN :
         IF opened
         THEN /\ pc' = "loop"
              /\ cap_open' = TRUE
              /\ end_cause' = end_cause
         ELSE IF source = "app_video"
         THEN \* no test of isOpened: the loop is skipped, cap released
              /\ pc' = "done"
              /\ cap_open' = FALSE
              /\ end_cause' = "not_opened"
         ELSE \* st.error, st.stop()
              /\ pc' = "stopped"
              /\ cap_open' = FALSE
              /\ end_cause' = "not_opened"
    /\ UNCHANGED <<source, n_frames, frame_skip, max_frames, frame_count,
                   frames_processed, last_annotated, out>>
    /\ UNCHANGED liveOnly
    /\ UNCHANGED notStream

\* A mutant: the end of the file taken for a failure, the capture kept
FileEndOfStream_failed ==
    /\ pc = "loop"
    /\ source \in FileSources
    /\ frame_count = n_frames
    /\ pc' = "raised"
    /\ end_cause' = "eof"
    /\ UNCHANGED <<source, cap_open, n_frames, frame_skip, max_frames, frame_count,
                   frames_processed, last_annotated, out>>
    /\ UNCHANGED liveOnly
    /\ UNCHANGED notStream

\* ret is False: break, then cap.release() and out.release()
FileEndOfStream ==
    /\ pc = "loop"
    /\ source \in FileSources
    /\ frame_count = n_frames
    /\ pc' = "done"
    /\ cap_open' = FALSE
    /\ end_cause' = "eof"
    /\ UNCHANGED <<source, n_frames, frame_skip, max_frames, frame_count,
                   frames_processed, last_annotated, out>>
    /\ UNCHANGED liveOnly
    /\ UNCHANGED notStream

\* A mutant: the processed frames are those with index mod skip = skip - 1
IsProcessed_last(count, skip) == count % skip = skip - 1

\* frame_count % frame_skip == 0
IsProcessed(count, skip) == count % skip = 0

\* one iteration on a processed frame
FileProcess ==
    /\ pc = "loop"
    /\ source \in FileSources
    /\ frame_count < n_frames
    /\ IsProcessed(frame_count, frame_skip)
    /\ \E outcome \in DetectOutcomes :
         IF FileBodyRaises(source, outcome)
         THEN \* nothing in the loop catches it: the capture is not released
              /\ pc' = "raised"
              /\ end_cause' = "detect_error"
              /\ UNCHANGED <<cap_open, frame_count, frames_processed,
                             last_annotated, out>>
         ELSE /\ last_annotated' = Annotated(frame_count)
              /\ out' = Append(out, Annotated(frame_count))
              /\ frames_processed' = frames_processed + 1
              /\ IF source \in CappedSources /\ frames_processed + 1 >= max_frames
                 THEN \* break, then the releases
                      /\ pc' = "done"
                      /\ cap_open' = FALSE
                      /\ end_cause' = "max_frames"
                      /\ frame_count' = frame_count
                 ELSE /\ frame_count' = frame_count + 1
                      /\ UNCHANGED <<pc, cap_open, end_cause>>
    /\ UNCHANGED <<source, n_frames, frame_skip, max_frames>>
    /\ UNCHANGED liveOnly
    /\ UNCHANGED notStream

\* A mutant: the raw frame written on a passthrough frame
PassthroughFrame_raw(src, last, count) == <<Raw(count)>>

\* what a passthrough frame writes to the output video
PassthroughFrame(src, last, count) ==
    IF src \in CappedSources
    THEN (IF last # NoFrame THEN <<last>> ELSE <<Raw(count)>>)
    ELSE <<>>

\* one iteration on a passthrough frame
FilePassthrough ==
    /\ pc = "loop"
    /\ source \in FileSources
    /\ frame_count < n_frames
    /\ ~IsProcessed(frame_count, frame_skip)
    /\ out' = out \o PassthroughFrame(source, last_annotated, frame_count)
    /\ frame_count' = frame_count + 1
    /\ UNCHANGED <<source, pc, cap_open, n_frames, frame_skip, max_frames,
                   frames_processed, last_annotated, end_cause>>
    /\ UNCHANGED liveOnly
    /\ UNCHANGED notStream

NextFile == FileOpen \/ FileEndOfStream \/ FileProcess \/ FilePassthrough

SpecFile == InitFile /\ [][NextFile]_vars

---------------------------------------------------------------------------
(* The uploaded-video loops' claims *)

\* C4: in a file loop, once read has returned no frame the session is Idle
\* with the capture released, and so is never Failed, whatever the file's
\* length and the skip interval.
C4_EndOfFileIdle ==
    (source \in FileSources /\ end_cause = "eof")
        => (SessionState = "Idle" /\ ~cap_open /\ frame_count = n_frames)

C4_Witness ==
    /\ source \in FileSources
    /\ end_cause = "eof"
    /\ n_frames > frame_skip
    /\ frame_skip > 1
    /\ SessionState = "Idle"

\* C5: with a skip interval above 1 and a frame already processed, every
\* passthrough iteration writes the annotated frame of the most recent
\* processed frame.
C5_Claim ==
    [][(/\ pc = "loop"
        /\ source \in FileSources
        /\ frame_count < n_frames
        /\ frame_count % frame_skip # 0
        /\ frames_processed > 0)
       => out' = Append(out, Annotated(frame_count - (frame_count % frame_skip)))]_vars

\* the output of a loop that read n frames with skip interval k
ExpectedOut(n, k) == [j \in 1..n |-> Annotated((j - 1) - ((j - 1) % k))]
CeilDiv(n, k) == (n + k - 1) \div k

\* C6 as stated: a loop that ran to its end on n frames wrote n frames, the
\* fresh annotation on every frame with index mod k = 0 and the last
\* annotation on the others, and ran ceil(n/k) detections.
C6_Claim ==
    (source \in CappedSources /\ pc = "done" /\ end_cause # "not_opened")
        => /\ out = ExpectedOut(n_frames, frame_skip)
           /\ frames_processed = CeilDiv(n_frames, frame_skip)

\* C6 as amended: the same, for a loop that ended because read returned no
\* frame; the loop that reaches max_frames processed frames stops there.
C6_WholeFile ==
    /\ (source \in CappedSources /\ end_cause = "eof")
         => /\ out = ExpectedOut(n_frames, frame_skip)
            /\ frames_processed = CeilDiv(n_frames, frame_skip)
            /\ frames_processed < max_frames
    /\ (source \in CappedSources /\ end_cause = "max_frames")
         => /\ frames_processed = max_frames
            /\ out = ExpectedOut(frame_count + 1, frame_skip)

C6_Witness ==
    /\ source = "app_video"
    /\ end_cause = "eof"
    /\ n_frames = 10
    /\ frame_skip = 2
    /\ frames_processed = 5
    /\ Len(out) = 10
    /\ {j \in 1..10 : out[j].index = j - 1} = {1, 3, 5, 7, 9}


\* C12: no session that has left Running (the loop) still holds its source
\* open, however the loop ended.
C12_Claim ==
    (source \in FileSources /\ pc \notin {"start", "loop"}) => ~cap_open

---------------------------------------------------------------------------
(* The live loops of streamlit_app_enhanced.py:                            *)
(*   webcam   webcam_detection_page                                        *)
(*   onvif    onvif_detection_page                                         *)
(* Time is counted in ticks, TicksPerSecond of them to the second, so that *)
(* 1.0 / fps_target is a whole number of ticks for the targets drawn.      *)

LiveSources == {"webcam", "onvif"}

TicksPerSecond == 6
FpsTargets == {1, 2, 3}
\* how long one read and the processing of its frame may take, in ticks
ProcTimes == {0, 1, 4, 7}
\* by how much time.sleep may run over
Oversleep == {0, 1}
MaxLiveFrames == 3

\* A frame put on the page at time t
Shown(frame, t) == [kind |-> frame.kind, index |-> frame.index, at |-> t]

\* target_frame_time = 1.0 / fps_target
TargetFrameTime(fps) == TicksPerSecond \div fps

\* A mutant: the pacing that forgets to sleep
SleepFor_none(frame_time, target_frame_time) == 0

\* if frame_time < target_frame_time: time.sleep(target_frame_time - frame_time)
SleepFor(frame_time, target_frame_time) ==
    IF frame_time < target_frame_time THEN target_frame_time - frame_time ELSE 0

\* The try body of the frame raises: detect itself, or (network camera) the
\* read of d.compliant, an attribute Detection does not have.
LiveBodyRaises(src, outcome) ==
    \/ outcome = "raise"
    \/ src = "onvif" /\ outcome = "detection"

InitLive ==
    /\ detections = <<>>
    /\ RuleIdle
    /\ source \in LiveSources
    /\ pc = "start"
    /\ cap_open = FALSE
    /\ n_frames \in 0..MaxLiveFrames
    /\ frame_skip = 1
    /\ max_frames = 0
    /\ frame_count = 0
    /\ frames_processed = 0
    /\ last_annotated = NoFrame
    /\ out = <<>>
    /\ end_cause = "none"
    /\ clock = 0
    /\ start_time = 0
    /\ last_frame_time = 0
    /\ fps_target \in FpsTargets
    /\ stream_on = TRUE
    /\ has_detector \in BOOLEAN
    /\ read_failures = 0
    /\ alert = NoAlert
    /\ DiscIdle
    /\ InfoIdle
    /\ AnnotIdle
    /\ DetIdle
    /\ DbIdle
    /\ UrlIdle
    /\ StoreIdle
    /\ ScanIdle
    /\ SessIdle

\* what cv2.VideoCapture(...) gives: it raises, or returns a capture that
\* is opened or is not
OpenOutcomes == {"raise", "not_opened", "opened"}

\* RTSPCamera.connect() is True, or cap.isOpened() of the webcam
Opened(outcome) == outcome = "opened"

\* A mutant: the loop entered although the source did not open
OpenFailedPc_loop == "loop"

\* where the page goes when the source did not open: st.error and
\* stream_active = False, the else branch with the loop is not taken
OpenFailedPc == "stopped"

\* cap = cv2.VideoCapture(...) or RTSPCamera.connect(), up to the loop
LiveOpen ==
    /\ pc = "start"
    /\ source \in LiveSources
    /\ \E outcome \in OpenOutcomes :
         IF Opened(outcome)
         THEN /\ pc' = "loop"
              /\ cap_open' = TRUE
              /\ start_time' = clock
              /\ last_frame_time' = clock
              /\ end_cause' = end_cause
         ELSE \* st.error, stream_active = False
              /\ pc' = OpenFailedPc
              /\ cap_open' = FALSE
              /\ end_cause' = "not_opened"
              /\ UNCHANGED <<start_time, last_frame_time>>
    /\ UNCHANGED <<source, n_frames, frame_count, out, clock, fps_target,
                   stream_on, has_detector, read_failures, alert>>
    /\ UNCHANGED fileOnly
    /\ UNCHANGED notStream

\* the user unticks the stream checkbox
UserStop ==
    /\ pc = "loop"
    /\ source \in LiveSources
    /\ stream_on
    /\ stream_on' = FALSE
    /\ UNCHANGED <<source, pc, cap_open, n_frames, frame_count, out, end_cause,
                   clock, start_time, last_frame_time, fps_target, has_detector,
                   read_failures, alert>>
    /\ UNCHANGED fileOnly
    /\ UNCHANGED notStream

\* ret is False: st.error, break, cap.release()
LiveReadFails ==
    /\ pc = "loop"
    /\ source \in LiveSources
    /\ frame_count = n_frames
    /\ pc' = "done"
    /\ cap_open' = FALSE
    /\ end_cause' = "read_fail"
    /\ read_failures' = read_failures + 1
    /\ UNCHANGED <<source, n_frames, frame_count, out, clock, start_time,
                   last_frame_time, fps_target, stream_on, has_detector, alert>>
    /\ UNCHANGED fileOnly
    /\ UNCHANGED notStream

\* A mutant: the stream checkbox never looked at
StopRequested_never(on) == FALSE

\* if not st.session_state.get('webcam_stream', False): break
StopRequested(on) == ~on

\* The rest of an iteration once the frame is on the page at time t: the
\* pacing sleep, last_frame_time, and the test of the stream checkbox.
PaceAndCheck(t) ==
    \E over \in Oversleep :
        LET frame_time == t - last_frame_time
            slept == SleepFor(frame_time, TargetFrameTime(fps_target))
            woke == t + slept + (IF slept > 0 THEN over ELSE 0)
        IN  /\ clock' = woke
            /\ last_frame_time' = woke
            /\ IF StopRequested(stream_on)
               THEN /\ pc' = "done"
                    /\ cap_open' = FALSE
                    /\ end_cause' = "cancel"
               ELSE UNCHANGED <<pc, cap_open, end_cause>>

\* timeout=10 of requests.post, in seconds
RequestTimeout == 10
\* how long requests.post may take to return, in ticks: a quick answer, or
\* none before the timeout
AlertTimes == {1, RequestTimeout * TicksPerSecond}

\* "if results.has_violations and st.session_state.notifier": whether the
\* frame's iteration calls send_violation_alert, and how long the call takes
AlertCalls(src, outcome) ==
    IF src = "webcam" /\ outcome = "detection"
    THEN {[sent |-> FALSE, took |-> 0]}
         \cup {[sent |-> TRUE, took |-> a] : a \in AlertTimes}
    ELSE {[sent |-> FALSE, took |-> 0]}

\* send_violation_alert called at time t for a frame: requests.post returns
\* (or times out) after took, and only then does the loop go on
SendAlert(frame, t, took) ==
    [frame |-> frame, sent_at |-> t, delivered_at |-> t + took,
     resumed_at |-> t + took]

\* one iteration of the loop on a frame that was read
LiveFrame ==
    /\ pc = "loop"
    /\ source \in LiveSources
    /\ frame_count < n_frames
    /\ frame_count' = frame_count + 1
    /\ \E d \in ProcTimes : \E outcome \in DetectOutcomes :
         LET t == clock + d
             frame == frame_count + 1
         IN  IF ~has_detector
             THEN \* the raw frame is shown
                  /\ out' = Append(out, Shown(Raw(frame), t))
                  /\ alert' = alert
                  /\ PaceAndCheck(t)
             ELSE IF ~LiveBodyRaises(source, outcome)
             THEN /\ out' = Append(out, Shown(Annotated(frame), t))
                  /\ \E call \in AlertCalls(source, outcome) :
                       IF call.sent
                       THEN /\ alert' = SendAlert(frame, t, call.took)
                            /\ PaceAndCheck(SendAlert(frame, t, call.took).resumed_at)
                       ELSE /\ alert' = alert
                            /\ PaceAndCheck(t)
             ELSE IF source = "webcam"
             THEN \* except: st.error, break; then cap.release()
                  /\ out' = out
                  /\ alert' = alert
                  /\ clock' = t
                  /\ pc' = "done"
                  /\ cap_open' = FALSE
                  /\ end_cause' = "detect_error"
                  /\ UNCHANGED last_frame_time
             ELSE \* except: st.error, the raw frame is shown
                  /\ out' = Append(out, Shown(Raw(frame), t))
                  /\ alert' = alert
                  /\ PaceAndCheck(t)
    /\ UNCHANGED <<source, n_frames, start_time, fps_target, stream_on,
                   has_detector, read_failures>>
    /\ UNCHANGED fileOnly
    /\ UNCHANGED notStream

NextLive == LiveOpen \/ UserStop \/ LiveReadFails \/ LiveFrame

SpecLive == InitLive /\ [][NextLive]_vars

---------------------------------------------------------------------------
(* The live loops' claims *)

\* iterations that ran to the end of the loop body
Completed ==
    IF end_cause = "detect_error" THEN frame_count - 1 ELSE frame_count

\* C7: after N completed iterations of a live loop at target_fps = F, at
\* least (N-1)/F has elapsed since the loop started, whatever the
\* processing times were.
C7_Pacing ==
    (source \in LiveSources /\ pc \in {"loop", "done"})
        => (last_frame_time - start_time) * fps_target
               >= (Completed - 1) * TicksPerSecond

C7_Witness ==
    /\ source \in LiveSources
    /\ Completed = MaxLiveFrames
    /\ (last_frame_time - start_time) * fps_target < (Completed + 1) * TicksPerSecond
    /\ (last_frame_time - start_time) * fps_target > Completed * TicksPerSecond

\* C23: the pacing suspension comes before the emission, so any two
\* consecutive frames put on the page of a live loop are at least
\* 1/target_fps apart, whatever the processing times were.
C23_Claim ==
    source \in LiveSources =>
        \A i \in 1..(Len(out) - 1) :
            (out[i + 1].at - out[i].at) * fps_target >= TicksPerSecond

\* C10: in no stream loop does an exception raised while a frame is
\* processed end the loop.
C10_Claim == end_cause # "detect_error"

\* C11: a live session that ended because a read returned no frame has
\* seen more than one such read: the failed read was tried again at least
\* once before the session gave up.
C11_Claim ==
    (source \in LiveSources /\ end_cause = "read_fail") => read_failures > 1

\* C13: the stream checkbox is looked at once per iteration, at its end: an
\* iteration begun before the box was unticked does not end the loop by
\* cancellation, and the iteration that runs once the box is unticked is the
\* last one: it reads one frame, then the loop stops and the source is
\* released.
C13_Cooperative ==
    [][(source \in LiveSources /\ pc = "loop" /\ frame_count' # frame_count)
         => IF stream_on
            THEN end_cause' # "cancel"
            ELSE /\ pc' = "done"
                 /\ ~cap_open'
                 /\ frame_count' = frame_count + 1]_vars

C13_Witness ==
    /\ source \in LiveSources
    /\ end_cause = "cancel"
    /\ pc = "done"
    /\ ~cap_open
    /\ frame_count > 1
    /\ frame_count < n_frames

C17_Claim ==
    (source \in LiveSources /\ alert # NoAlert)
        => alert.resumed_at < alert.delivered_at

---------------------------------------------------------------------------
(* ONVIFDiscovery.discover_cameras (scripts/discovery.py): the calling     *)
(* thread (m_pc) and the daemon thread running _ws_discovery (t_pc).       *)
(* Time is counted in ticks of half a second. A blocking call (join,       *)
(* recvfrom, connect_ex) holds a deadline that time cannot pass before the *)
(* call has returned; every other statement takes no time.                 *)

\* the timeout argument: 1 s and 2 s
DiscTimeouts == {2, 4}
\* the "+ 1" of discovery_thread.join(timeout + 1), in ticks
JoinSlack == 2
\* sock.settimeout(1.0) of the known-address probes, in ticks
KnownConnectTimeout == 2
\* sock.settimeout(0.5) of the scan's probes, in ticks
ScanConnectTimeout == 1
\* ThreadPoolExecutor(max_workers=50)
max_workers == 50

COMMON_ONVIF_PORTS == <<2020, 80, 8080, 8000, 8899, 10080>>
\* the ports whose open connection counts as a camera
CameraPorts == {2020, 8080, 8000}

Ip(net, host) == [net |-> net, host |-> host]
Camera(ip, port) == [ip |-> ip, port |-> port]

\* camera_ips, the addresses checked first
camera_ips ==
    << Camera(Ip("192.168.1", 102), 2020),
       Camera(Ip("192.168.1", 103), 2020),
       Camera(Ip("192.168.1", 113), 8080),
       Camera(Ip("192.168.1", 133), 2020) >>

\* the local /24 the machine may sit in; "none": no route, s.connect raises
LocalNets == {"192.168.1", "10.0.0", "none"}
\* the hosts of range(1, 255) that the model scans
ScanHosts == {7, 102}
\* how many scanned endpoints accept a connection, at most
MaxOpen == 1

\* the datagrams recvfrom may return: a ProbeMatch whose XAddrs names a
\* port, or bytes _parse_probe_match cannot use
Messages ==
    { [kind |-> "match", ip |-> Ip("192.168.1", 102), port |-> 2020],
      [kind |-> "match", ip |-> Ip("10.0.0", 7), port |-> 80],
      [kind |-> "garbage", ip |-> Ip("10.0.0", 7), port |-> 0] }

\* _parse_probe_match under the lock
ParseProbeMatch(found, msg) ==
    IF msg.kind = "match" /\ ~\E i \in 1..Len(found) : found[i].ip = msg.ip
    THEN Append(found, Camera(msg.ip, msg.port))
    ELSE found

\* A mutant: the scan run only when WS-Discovery found something
NeedsScan_inverted(n) == n > 0

\* if len(self.discovered_cameras) == 0
NeedsScan(n) == n = 0

\* the futures submitted by the full scan
Futures(found, net) ==
    {Camera(Ip(net, h), COMMON_ONVIF_PORTS[k]) :
        h \in {x \in ScanHosts :
                 ~\E i \in 1..Len(found) : found[i].ip = Ip(net, x)},
        k \in 1..Len(COMMON_ONVIF_PORTS)}

\* the successful results in the order as_completed yields them
RECURSIVE CompletionOrders(_, _)
CompletionOrders(futs, n) ==
    IF n = 0 THEN {<<>>}
    ELSE LET shorter == CompletionOrders(futs, n - 1)
         IN  shorter \cup
             {Append(d, f) : d \in {x \in shorter : Len(x) = n - 1},
                             f \in futs}

NoRepeat(done) ==
    \A i, j \in 1..Len(done) : i # j => done[i] # done[j]

\* the loop over as_completed(futures)
RECURSIVE AddFound(_, _)
AddFound(found, done) ==
    IF done = <<>> THEN found
    ELSE LET r == Head(done)
             known == \E i \in 1..Len(found) :
                         found[i].ip = r.ip /\ found[i].port = r.port
         IN  AddFound(IF ~known /\ r.port \in CameraPorts
                      THEN Append(found, r) ELSE found,
                      Tail(done))

\* how long the pool needs for n probes at most
FullScanTicks(n) == ((n + max_workers - 1) \div max_workers) * ScanConnectTimeout

InitDisc ==
    /\ detections = <<>>
    /\ RuleIdle
    /\ StreamIdle
    /\ InfoIdle
    /\ AnnotIdle
    /\ DetIdle
    /\ DbIdle
    /\ UrlIdle
    /\ StoreIdle
    /\ ScanIdle
    /\ SessIdle
    /\ timeout \in DiscTimeouts
    /\ m_pc = "start"
    /\ t_pc = "idle"
    /\ dclock = 0
    /\ join_deadline = 0
    /\ ws_start_time = 0
    /\ recv_deadline = 0
    /\ m_deadline = 0
    /\ known_i = 0
    /\ local_net \in LocalNets
    /\ cameras = <<>>
    /\ discovered_cameras = <<>>
    /\ checked_len = 0
    /\ scan_ran = FALSE

\* self.discovered_cameras = []; the thread is started; join begins
M_Start ==
    /\ m_pc = "start"
    /\ discovered_cameras' = <<>>
    /\ t_pc' = "send"
    /\ join_deadline' = dclock + timeout + JoinSlack
    /\ m_pc' = "join"
    /\ UNCHANGED <<timeout, dclock, ws_start_time, recv_deadline, m_deadline,
                   known_i, local_net, cameras, checked_len, scan_ran>>
    /\ UNCHANGED notDisc

\* sock.sendto: it raises (finally: close) or the receive loop begins
T_Send ==
    /\ t_pc = "send"
    /\ \E sent \in BOOLEAN :
         IF sent
         THEN /\ t_pc' = "recv"
              /\ ws_start_time' = dclock
              /\ recv_deadline' = dclock + timeout
         ELSE /\ t_pc' = "done"
              /\ UNCHANGED <<ws_start_time, recv_deadline>>
    /\ UNCHANGED <<timeout, m_pc, dclock, join_deadline, m_deadline, known_i,
                   local_net, cameras, discovered_cameras, checked_len, scan_ran>>
    /\ UNCHANGED notDisc

\* recvfrom returns a datagram; then the loop's test
T_Recv ==
    /\ t_pc = "recv"
    /\ dclock > recv_deadline - timeout
    /\ \E msg \in Messages :
         discovered_cameras' = ParseProbeMatch(discovered_cameras, msg)
    /\ IF dclock - ws_start_time < timeout
       THEN /\ recv_deadline' = dclock + timeout
            /\ t_pc' = t_pc
       ELSE /\ t_pc' = "done"
            /\ recv_deadline' = recv_deadline
    /\ UNCHANGED <<timeout, m_pc, dclock, join_deadline, ws_start_time, m_deadline,
                   known_i, local_net, cameras, checked_len, scan_ran>>
    /\ UNCHANGED notDisc

\* recvfrom raises socket.timeout: break, close
T_RecvTimeout ==
    /\ t_pc = "recv"
    /\ dclock = recv_deadline
    /\ t_pc' = "done"
    /\ UNCHANGED <<timeout, m_pc, dclock, join_deadline, ws_start_time,
                   recv_deadline, m_deadline, known_i, local_net, cameras,
                   discovered_cameras, checked_len, scan_ran>>
    /\ UNCHANGED notDisc

\* join returns: the thread has ended, or timeout + 1 has passed
M_Join ==
    /\ m_pc = "join"
    /\ t_pc = "done" \/ dclock = join_deadline
    /\ m_pc' = "check"
    /\ UNCHANGED <<timeout, t_pc, dclock, join_deadline, ws_start_time,
                   recv_deadline, m_deadline, known_i, local_net, cameras,
                   discovered_cameras, checked_len, scan_ran>>
    /\ UNCHANGED notDisc

\* the test of len(self.discovered_cameras)
M_Check ==
    /\ m_pc = "check"
    /\ checked_len' = Len(discovered_cameras)
    /\ IF NeedsScan(Len(discovered_cameras))
       THEN m_pc' = "scan" /\ scan_ran' = TRUE
       ELSE m_pc' = "returned" /\ scan_ran' = scan_ran
    /\ UNCHANGED <<timeout, t_pc, dclock, join_deadline, ws_start_time,
                   recv_deadline, m_deadline, known_i, local_net, cameras,
                   discovered_cameras>>
    /\ UNCHANGED notDisc

\* _scan_local_network: the local address; on an exception cameras is returned
M_LocalAddress ==
    /\ m_pc = "scan"
    /\ cameras' = <<>>
    /\ IF local_net = "none"
       THEN /\ m_pc' = "merge"
            /\ UNCHANGED <<known_i, m_deadline>>
       ELSE /\ m_pc' = "known"
            /\ known_i' = 1
            /\ m_deadline' = dclock + KnownConnectTimeout
    /\ UNCHANGED <<timeout, t_pc, dclock, join_deadline, ws_start_time,
                   recv_deadline, local_net, discovered_cameras, checked_len,
                   scan_ran>>
    /\ UNCHANGED notDisc

\* connect_ex to camera_ips[known_i] returns: at once (connected or refused)
\* or when its timeout expires (not connected); after the last address, the
\* full scan is entered if fewer than 4 cameras answered
M_KnownProbe ==
    /\ m_pc = "known"
    /\ \E connected \in BOOLEAN :
         /\ \/ dclock = m_deadline - KnownConnectTimeout
            \/ ~connected /\ dclock = m_deadline
         /\ LET found == IF connected THEN Append(cameras, camera_ips[known_i])
                         ELSE cameras
            IN  /\ cameras' = found
                /\ IF known_i < Len(camera_ips)
                   THEN /\ known_i' = known_i + 1
                        /\ m_deadline' = dclock + KnownConnectTimeout
                        /\ m_pc' = m_pc
                   ELSE IF Len(found) < 4
                   THEN /\ m_pc' = "full"
                        /\ m_deadline' = dclock + FullScanTicks(
                                             Cardinality(Futures(found, local_net)))
                        /\ known_i' = known_i
                   ELSE /\ m_pc' = "merge"
                        /\ UNCHANGED <<known_i, m_deadline>>
    /\ UNCHANGED <<timeout, t_pc, dclock, join_deadline, ws_start_time,
                   recv_deadline, local_net, discovered_cameras, checked_len,
                   scan_ran>>
    /\ UNCHANGED notDisc

\* the pool's probes have all returned
M_FullScan ==
    /\ m_pc = "full"
    /\ \E done \in CompletionOrders(Futures(cameras, local_net), MaxOpen) :
         /\ NoRepeat(done)
         /\ cameras' = AddFound(cameras, done)
    /\ m_pc' = "merge"
    /\ UNCHANGED <<timeout, t_pc, dclock, join_deadline, ws_start_time,
                   recv_deadline, m_deadline, known_i, local_net,
                   discovered_cameras, checked_len, scan_ran>>
    /\ UNCHANGED notDisc

\* with self.discovery_lock: extend; return self.discovered_cameras
M_Merge ==
    /\ m_pc = "merge"
    /\ discovered_cameras' = discovered_cameras \o cameras
    /\ m_pc' = "returned"
    /\ UNCHANGED <<timeout, t_pc, dclock, join_deadline, ws_start_time,
                   recv_deadline, m_deadline, known_i, local_net, cameras,
                   checked_len, scan_ran>>
    /\ UNCHANGED notDisc

\* half a second passes while some thread is blocked
DTick ==
    /\ m_pc \in {"join", "known", "full", "returned"}
    /\ t_pc \in {"recv", "done"}
    /\ m_pc = "returned" => t_pc = "recv"
    /\ m_pc = "join" => (t_pc # "done" /\ dclock < join_deadline)
    /\ m_pc \in {"known", "full"} => dclock < m_deadline
    /\ t_pc = "recv" => dclock < recv_deadline
    /\ dclock' = dclock + 1
    /\ UNCHANGED <<timeout, m_pc, t_pc, join_deadline, ws_start_time,
                   recv_deadline, m_deadline, known_i, local_net, cameras,
                   discovered_cameras, checked_len, scan_ran>>
    /\ UNCHANGED notDisc

NextDisc ==
    \/ M_Start \/ M_Join \/ M_Check \/ M_LocalAddress \/ M_KnownProbe
    \/ M_FullScan \/ M_Merge \/ T_Send \/ T_Recv \/ T_RecvTimeout \/ DTick

\* both threads are scheduled and time passes
SpecDisc == InitDisc /\ [][NextDisc]_vars /\ WF_vars(NextDisc)

---------------------------------------------------------------------------
(* discover_cameras' claims *)

\* the longest the call can take, from its timeouts
DiscoverBound(t) ==
    t + JoinSlack + Len(camera_ips) * KnownConnectTimeout
      + FullScanTicks(Cardinality(ScanHosts) * Len(COMMON_ONVIF_PORTS))

\* C8: a call that found no camera by WS-Discovery runs the network scan
\* before it returns; the call is never running later than the bound its
\* timeouts give, and it always returns.
C8_Discovery ==
    /\ []((m_pc = "returned" /\ checked_len = 0) => scan_ran)
    /\ [](m_pc \in {"merge", "returned"} => checked_len = 0 \/ ~scan_ran)
    /\ [](m_pc \notin {"idle", "returned"} => dclock <= DiscoverBound(timeout))
    /\ <>(m_pc = "returned")

C8_Witness ==
    /\ m_pc = "returned"
    /\ checked_len = 0
    /\ scan_ran
    /\ t_pc = "recv"
    /\ Len(discovered_cameras) > 0

\* the WS-Discovery worker thread has been started and has not ended
WorkerAlive == t_pc \in {"send", "recv"}

\* whether a step of the model touches self.discovered_cameras inside
\* "with self.discovery_lock": _parse_probe_match and the extend of the merge
\* do, the test of len() after the join does not
HoldsLock(step) == step \in {"T_Recv", "M_Merge"}

\* C25: every read and write of self.discovered_cameras made while the
\* worker is alive is made holding discovery_lock.
C25_Claim ==
    [][/\ (m_pc = "check" /\ m_pc' # "check" /\ WorkerAlive)
              => HoldsLock("M_Check")
       /\ (m_pc = "merge" /\ m_pc' # "merge" /\ WorkerAlive)
              => HoldsLock("M_Merge")
       /\ (t_pc = "recv" /\ discovered_cameras' # discovered_cameras
              /\ m_pc' = m_pc)
              => HoldsLock("T_Recv")
      ]_vars

\* C28: once discover_cameras has returned, the list it returned is not
\* modified again.
C28_Claim ==
    [][m_pc = "returned" => discovered_cameras' = discovered_cameras]_vars

\* C29: the list discover_cameras returns never holds two entries with
\* the same IP and port.
C29_Claim ==
    m_pc = "returned" =>
        \A i, j \in 1..Len(discovered_cameras) :
            i # j => \/ discovered_cameras[i].ip # discovered_cameras[j].ip
                     \/ discovered_cameras[i].port # discovered_cameras[j].port

---------------------------------------------------------------------------
(* ONVIFDiscovery.get_camera_info and _try_common_rtsp_urls               *)
(* (scripts/discovery.py; WorkingONVIFDiscovery in                        *)
(* streamlit_app_enhanced.py handles faults the same way).                *)

\* profiles GetProfiles returns, at most
MaxProfiles == 2
\* ONVIFCamera(...), GetDeviceInformation, GetProfiles
OnvifCalls == 3
\* the port argument
OnvifPort == 80

NotAuthorized == <<"N","o","t","A","u","t","h","o","r","i","z","e","d">>
Sender == <<"S","e","n","d","e","r">>

Fault(code, message) == [type |-> "Fault", code |-> code, message |-> message]

\* what a call of the sequence may raise: SOAP faults, and exceptions that
\* are no Fault (ONVIFError, a refused connection)
Exceptions ==
    { Fault(<<"t","e","r",":","N","o","t","A","u","t","h","o","r","i","z","e","d">>, <<"f","a","i","l">>),
      Fault(<<"e","n","v",":","R","e","c","e","i","v","e","r">>, <<"N","o","t","A","u","t","h","o","r","i","z","e","d">>),
      Fault(<<"e","n","v",":","S","e","n","d","e","r">>, <<"f","a","i","l">>),
      Fault(<<"e","n","v",":","R","e","c","e","i","v","e","r">>, <<"f","a","i","l">>),
      [type |-> "ONVIFError", code |-> <<>>, message |-> <<"f","a","i","l">>],
      [type |-> "ConnectionError", code |-> <<>>, message |-> <<"r","e","f","u","s","e","d">>] }

\* 'NotAuthorized' in fault_code or 'NotAuthorized' in fault_string
\* or 'Sender' in fault_code
IsAuthFault(fault) ==
    \/ Contains(NotAuthorized, fault.code)
    \/ Contains(NotAuthorized, fault.message)
    \/ Contains(Sender, fault.code)

common_paths ==
    << "/stream1", "/Streaming/Channels/101",
       "/cam/realmonitor?channel=1&subtype=0", "/live/ch00_0",
       "/h264Preview_01_main", "/video.mp4", "/media/video1", "/live.sdp",
       "/videoMain", "/11", "/1" >>
rtsp_ports == <<554, 8554>>

\* the i-th URL of "for path in common_paths: for rtsp_port in [554, 8554]"
ProbeUrl(i) ==
    [port |-> rtsp_ports[((i - 1) % Len(rtsp_ports)) + 1],
     path |-> common_paths[((i - 1) \div Len(rtsp_ports)) + 1]]
NumProbes == Len(common_paths) * Len(rtsp_ports)

\* cv2.VideoCapture(rtsp_url): raises, is not opened, opens without a
\* frame, or opens and reads a frame
ProbeOutcomes == {"raise", "not_opened", "no_frame", "frame"}

InitInfo ==
    /\ detections = <<>>
    /\ RuleIdle
    /\ StreamIdle
    /\ DiscIdle
    /\ AnnotIdle
    /\ DetIdle
    /\ DbIdle
    /\ UrlIdle
    /\ StoreIdle
    /\ ScanIdle
    /\ SessIdle
    /\ i_pc = "onvif"
    /\ onvif_step = 1
    /\ raised = NoException
    /\ n_profiles \in 0..MaxProfiles
    /\ stream_uris = <<>>
    /\ uri_errors = {}
    /\ probe_i = 0
    /\ probed = <<>>
    /\ info_result = NoResult

\* one call of the sequence inside the try block returns or raises
I_OnvifCall ==
    /\ i_pc = "onvif"
    /\ \E outcome \in {NoException} \cup Exceptions :
         IF outcome = NoException
         THEN /\ raised' = raised
              /\ IF onvif_step < OnvifCalls
                 THEN onvif_step' = onvif_step + 1 /\ i_pc' = i_pc
                 ELSE onvif_step' = onvif_step /\ i_pc' = "profiles"
         ELSE /\ raised' = outcome
              /\ i_pc' = "except"
              /\ onvif_step' = onvif_step
    /\ UNCHANGED <<n_profiles, stream_uris, uri_errors, probe_i, probed,
                   info_result>>
    /\ UNCHANGED notInfo

\* GetStreamUri for the next profile; an exception is printed and passed
I_GetStreamUri ==
    /\ i_pc = "profiles"
    /\ n_profiles > 0
    /\ \E outcome \in {NoException} \cup Exceptions :
         IF outcome = NoException
         THEN /\ stream_uris' = Append(stream_uris, n_profiles)
              /\ uri_errors' = uri_errors
         ELSE /\ stream_uris' = stream_uris
              /\ uri_errors' = uri_errors \cup {outcome}
    /\ n_profiles' = n_profiles - 1
    /\ UNCHANGED <<i_pc, onvif_step, raised, probe_i, probed, info_result>>
    /\ UNCHANGED notInfo

\* the return at the end of the try block
I_Return ==
    /\ i_pc = "profiles"
    /\ n_profiles = 0
    /\ info_result' = [error |-> "none", port |-> OnvifPort,
                       stream_uris |-> stream_uris]
    /\ i_pc' = "returned"
    /\ UNCHANGED <<onvif_step, raised, n_profiles, stream_uris, uri_errors,
                   probe_i, probed>>
    /\ UNCHANGED notInfo

\* except Fault / except Exception
I_Except ==
    /\ i_pc = "except"
    /\ IF raised.type = "Fault"
       THEN /\ info_result' =
                 [error |-> IF IsAuthFault(raised) THEN "auth" ELSE "onvif_fault",
                  port |-> 0, stream_uris |-> <<>>]
            /\ i_pc' = "returned"
            /\ probe_i' = probe_i
       ELSE /\ i_pc' = "fallback"
            /\ probe_i' = 1
            /\ info_result' = info_result
    /\ UNCHANGED <<onvif_step, raised, n_profiles, stream_uris, uri_errors,
                   probed>>
    /\ UNCHANGED notInfo

\* one pass of the inner loop of _try_common_rtsp_urls
I_Probe ==
    /\ i_pc = "fallback"
    /\ probe_i <= NumProbes
    /\ probed' = Append(probed, ProbeUrl(probe_i))
    /\ \E outcome \in ProbeOutcomes :
         IF outcome = "frame"
         THEN /\ info_result' = [error |-> "none", port |-> ProbeUrl(probe_i).port,
                                 stream_uris |-> <<ProbeUrl(probe_i)>>]
              /\ i_pc' = "returned"
              /\ probe_i' = probe_i
         ELSE /\ probe_i' = probe_i + 1
              /\ UNCHANGED <<i_pc, info_result>>
    /\ UNCHANGED <<onvif_step, raised, n_profiles, stream_uris, uri_errors>>
    /\ UNCHANGED notInfo

\* "If all attempts failed"
I_AllFailed ==
    /\ i_pc = "fallback"
    /\ probe_i > NumProbes
    /\ info_result' = [error |-> "auth", port |-> 0, stream_uris |-> <<>>]
    /\ i_pc' = "returned"
    /\ UNCHANGED <<onvif_step, raised, n_profiles, stream_uris, uri_errors,
                   probe_i, probed>>
    /\ UNCHANGED notInfo

NextInfo ==
    \/ I_OnvifCall \/ I_GetStreamUri \/ I_Return \/ I_Except \/ I_Probe
    \/ I_AllFailed

SpecInfo == InitInfo /\ [][NextInfo]_vars

---------------------------------------------------------------------------
(* get_camera_info's claims *)

\* a fault that says NotAuthorized, in its code or in its text
NotAuthorizedFault(e) ==
    /\ e.type = "Fault"
    /\ Contains(NotAuthorized, e.code) \/ Contains(NotAuthorized, e.message)

\* the URLs before the i-th, in the order they are tried
FirstProbes(i) == [k \in 1..i |-> ProbeUrl(k)]

\* the call fell back and took the first URL that gave a frame, or none did
FellBack ==
    /\ probed # <<>>
    /\ probed = FirstProbes(Len(probed))
    /\ \/ info_result.error = "none" /\ info_result.stream_uris = <<probed[Len(probed)]>>
       \/ info_result.error = "auth" /\ Len(probed) = NumProbes

\* C9: a returned call whose ONVIF sequence failed with a NotAuthorized fault
\* has returned the auth error; a returned call whose sequence failed in any
\* other way has probed the RTSP templates in order, ports 554 then 8554 for
\* each path, and taken the first that gave a frame.
C9_Claim ==
    i_pc = "returned" =>
        /\ (\E e \in {raised} \cup uri_errors : NotAuthorizedFault(e))
               => info_result.error = "auth"
        /\ (raised # NoException /\ ~NotAuthorizedFault(raised)) => FellBack

---------------------------------------------------------------------------
(* What is drawn on a frame: PPEDetector._annotate_image (detector.py),   *)
(* whose image the video pages and the network-camera page show, and the  *)
(* drawing the webcam page does itself on a copy of the raw frame.        *)

\* frames drawn in one run, at most
MaxDraws == 2

\* colours, (B, G, R)
SAFE_COLOR == <<0, 255, 0>>
VIOLATION_COLOR == <<0, 0, 255>>
PersonColor == <<255, 0, 0>>
HardhatColor == <<0, 255, 0>>
VestColor == <<0, 255, 255>>
OtherColor == <<255, 255, 255>>

NoBanner == [text |-> "", count |-> 0, color |-> <<>>]
Box(class_name, color) == [class_name |-> class_name, color |-> color]

\* PPEDetector._annotate_image
annotate_image(dets, violations) ==
    [boxes |-> [i \in 1..Len(dets) |->
                  Box(dets[i].class_name,
                      IF Len(violations) > 0 THEN VIOLATION_COLOR ELSE SAFE_COLOR)],
     banner |-> IF Len(violations) > 0
                THEN [text |-> "VIOLATIONS DETECTED: ", count |-> Len(violations),
                      color |-> VIOLATION_COLOR]
                ELSE NoBanner]

\* "Display Confidence", in hundredths
DisplayConfidences == {50, 100}

\* "Color based on class" of the webcam page
WebcamColor(class_name) ==
    LET cls == Lower(class_name)
    IN  IF Contains(PersonLiteral, cls) THEN PersonColor
        ELSE IF Contains(<<"h","a","r","d","h","a","t">>, cls) \/ Contains(<<"h","e","l","m","e","t">>, cls) THEN HardhatColor
        ELSE IF Contains(<<"v","e","s","t">>, cls) \/ Contains(<<"s","a","f","e","t","y">>, cls) THEN VestColor
        ELSE OtherColor

\* the display frame of the webcam page: the raw frame with its own boxes
webcam_display(dets, violations, confidence_display) ==
    LET filtered_detections ==
            SelectSeq(dets, LAMBDA d : d.confidence >= confidence_display)
    IN  [boxes |-> [i \in 1..Len(filtered_detections) |->
                      Box(filtered_detections[i].class_name,
                          WebcamColor(filtered_detections[i].class_name))],
         banner |-> IF Len(violations) > 0
                    THEN [text |-> "VIOLATION DETECTED!", count |-> 0,
                          color |-> VIOLATION_COLOR]
                    ELSE NoBanner]

Drawn(by, violations, image) ==
    [by |-> by, violations |-> violations, boxes |-> image.boxes,
     banner |-> image.banner]

InitAnnot ==
    /\ detections \in DetectionLists
    /\ RuleIdle
    /\ StreamIdle
    /\ DiscIdle
    /\ InfoIdle
    /\ DetIdle
    /\ DbIdle
    /\ UrlIdle
    /\ StoreIdle
    /\ ScanIdle
    /\ SessIdle
    /\ drawn = <<>>

\* detect(image, annotate=True, check_violations=...): the annotated image
DetectAnnotate ==
    /\ Len(drawn) < MaxDraws
    /\ \E check \in BOOLEAN :
         LET violations == IF check THEN check_violations(detections, now, now)
                           ELSE <<>>
         IN  drawn' = Append(drawn, Drawn("annotate_image", violations,
                                          annotate_image(detections, violations)))
    /\ UNCHANGED notAnnot

\* the webcam page: detect, then its own drawing on frame.copy()
WebcamDisplay ==
    /\ Len(drawn) < MaxDraws
    /\ \E confidence_display \in DisplayConfidences :
         LET violations == check_violations(detections, now, now)
         IN  drawn' = Append(drawn, Drawn("webcam_page", violations,
                                 webcam_display(detections, violations,
                                                confidence_display)))
    /\ UNCHANGED notAnnot

NextAnnot == DetectAnnotate \/ WebcamDisplay

SpecAnnot == InitAnnot /\ [][NextAnnot]_vars

---------------------------------------------------------------------------
(* The annotator's claims *)

\* the frame-level policy, for one drawn frame
FrameLevel(f) ==
    LET palette == IF Len(f.violations) > 0 THEN VIOLATION_COLOR ELSE SAFE_COLOR
    IN  /\ \A i \in 1..Len(f.boxes) : f.boxes[i].color = palette
        /\ f.banner = IF Len(f.violations) > 0
                      THEN [text |-> "VIOLATIONS DETECTED: ",
                            count |-> Len(f.violations), color |-> VIOLATION_COLOR]
                      ELSE NoBanner

\* C15: every frame drawn, by _annotate_image or by a stream page, has all
\* its boxes in the violation palette and the banner "VIOLATIONS DETECTED: N"
\* when its violations list is non-empty, and all its boxes in the compliant
\* palette and no banner when it is empty.
C15_Claim == \A k \in 1..Len(drawn) : FrameLevel(drawn[k])

---------------------------------------------------------------------------
(* PPEDetector.detect and the metrics (detector.py)                       *)

\* boxes in one engine result, at most
MaxBoxes == 1
\* detect calls between two resets, at most
MaxInferences == 3

\* the class ids the engine may give; self.class_names names 0 and 1 only
ClassIds == {0, 1, 2}
class_names == (0 :> <<"P","e","r","s","o","n">>) @@ (1 :> <<"H","a","r","d","h","a","t">>)
Digits == <<"0", "1", "2", "3", "4", "5", "6", "7", "8", "9">>

\* self.class_names.get(cls_id, f"class_{cls_id}")
ClassName(cls_id) ==
    IF cls_id \in DOMAIN class_names THEN class_names[cls_id]
    ELSE <<"c","l","a","s","s","_">> \o <<Digits[cls_id + 1]>>

\* what self.model.predict gives: no result object, a result without boxes,
\* or a result with boxes, each with a class id
EngineOutputs ==
    {[kind |-> "empty", cls |-> <<>>], [kind |-> "no_boxes", cls |-> <<>>]}
    \cup {[kind |-> "boxes", cls |-> c] :
             c \in UNION {[1..n -> ClassIds] : n \in 0..MaxBoxes}}
\* or predict raises
PredictOutcomes == EngineOutputs \cup {[kind |-> "raise", cls |-> <<>>]}

\* "Parse detections"
parse_detections(eng) ==
    IF eng.kind = "boxes"
    THEN [i \in 1..Len(eng.cls) |->
            [class_name |-> ClassName(eng.cls[i]), confidence |-> 90]]
    ELSE <<>>

Raised(error) ==
    [status |-> "raised", error |-> error, detections |-> <<>>,
     violations |-> <<>>]

\* PPEDetector.detect, from the engine's output to the DetectionResult
detect(eng, t) ==
    IF eng.kind = "raise" THEN Raised("Exception")
    ELSE LET dets == parse_detections(eng)
         IN  [status |-> "ok", error |-> "", detections |-> dets,
              violations |-> check_violations(dets, t, t)]

\* PPEDetector.get_metrics
get_metrics(inferences, violations) ==
    [called |-> TRUE, total_inferences |-> inferences,
     violations_detected |-> violations]

InitDet ==
    /\ detections = <<>>
    /\ RuleIdle
    /\ StreamIdle
    /\ DiscIdle
    /\ InfoIdle
    /\ AnnotIdle
    /\ DetIdle
    /\ DbIdle
    /\ UrlIdle
    /\ StoreIdle
    /\ ScanIdle
    /\ SessIdle

\* the statements of detect, other than the inference, that raise in this
\* call: cv2.imread returns None (ValueError), _check_violations raises,
\* _annotate_image raises, or none does
FailStages == {"none", "load", "rules", "annotate"}

\* what detect returns or raises when the statement of stage raises
detect_failing(stage, eng, t) ==
    IF stage = "load" THEN Raised("ValueError")
    ELSE IF stage = "none" \/ eng.kind = "raise" THEN detect(eng, t)
    ELSE Raised(stage)

UpdateMetrics_early(status, counter, by) == counter + by

\* "Update metrics": the counters are written after the last statement that
\* can raise, so only by a call that goes on to return
UpdateMetrics(status, counter, by) ==
    IF status = "ok" THEN counter + by ELSE counter

\* one call of detect
DetectCall ==
    /\ total_inferences < MaxInferences
    /\ \E eng \in PredictOutcomes : \E stage \in FailStages :
         \E r \in {detect_failing(stage, eng, now)} :
             /\ det_in' = IF stage = "load" THEN NoEngineOutput ELSE eng
             /\ det_out' = r
             /\ total_inferences' =
                    UpdateMetrics(r.status, total_inferences, 1)
             /\ violations_detected' =
                    UpdateMetrics(r.status, violations_detected,
                                  Len(r.violations))
             /\ completed' = IF r.status = "ok" THEN completed + 1
                             ELSE completed
    /\ UNCHANGED <<batch_in, batch_out, metrics>>
    /\ UNCHANGED notDet

\* PPEDetector.reset_metrics
ResetMetrics ==
    /\ total_inferences' = 0
    /\ violations_detected' = 0
    /\ completed' = 0
    /\ UNCHANGED <<det_in, det_out, batch_in, batch_out, metrics>>
    /\ UNCHANGED notDet

\* one call of get_metrics
GetMetrics ==
    /\ metrics' = get_metrics(total_inferences, violations_detected)
    /\ UNCHANGED <<total_inferences, violations_detected, det_in, det_out,
                   completed, batch_in, batch_out>>
    /\ UNCHANGED notDet

NextDet == DetectCall \/ ResetMetrics \/ GetMetrics

SpecDet == InitDet /\ [][NextDet]_vars

---------------------------------------------------------------------------
(* detect's claims *)

\* the engine's output is malformed: no result object, no boxes, or a class
\* id the model does not name
Malformed(eng) ==
    \/ eng.kind \in {"empty", "no_boxes"}
    \/ eng.kind = "boxes" /\ \E i \in 1..Len(eng.cls) :
                                eng.cls[i] \notin DOMAIN class_names

\* C16: a detect call whose engine output was malformed has raised.
C16_Claim == Malformed(det_in) => det_out.status = "raised"

\* C30: a detect call that raises - the image cannot be loaded, or the
\* inference, the rule evaluation or the annotation fails - leaves
\* total_inferences and violations_detected as they were.
C30_Claim ==
    [][(det_out' # det_out /\ det_out'.status = "raised")
          => /\ total_inferences' = total_inferences
             /\ violations_detected' = violations_detected]_vars

\* a call has raised in the annotation after two calls that returned and
\* counted violations
C30_Witness ==
    /\ det_out.status = "raised"
    /\ det_out.error = "annotate"
    /\ total_inferences = 2
    /\ violations_detected > 0

\* the keys of the dict the claim describes
MetricKeys == {"total_inferences", "total_inference_time", "violations_detected"}

\* C19: get_metrics reports total_inferences, equal to the number of detect
\* calls completed since the last reset, together with total_inference_time
\* and violations_detected; with no call completed since the last reset (or
\* since construction) the counters are zero.
C19_Claim ==
    LET m == get_metrics(total_inferences, violations_detected)
    IN  /\ m.total_inferences = completed
        /\ completed = 0 => m.violations_detected = 0
        /\ MetricKeys \subseteq DOMAIN m
        /\ metrics.called => MetricKeys \subseteq DOMAIN metrics

---------------------------------------------------------------------------
(* PPEDetector.detect_batch (detector.py)                                 *)

\* images in one batch, at most
MaxBatch == 3

\* what the engine does on one image of a batch: no box, one Person box, or
\* it raises
BatchImages ==
    {[kind |-> "boxes", cls |-> <<>>], [kind |-> "boxes", cls |-> <<0>>],
     [kind |-> "raise", cls |-> <<>>]}
Batches == UNION {[1..n -> BatchImages] : n \in 0..MaxBatch}

\* the keyword parameters of detect, and the **kwargs a caller may pass on
\* (test_batch_detect passes batch_size=2)
DetectParams == {"annotate", "check_violations"}
BatchKwargs == {{}, {"batch_size"}}

\* self.detect(img, **kwargs)
detect_kw(eng, kwargs, t) ==
    IF kwargs \subseteq DetectParams THEN detect(eng, t) ELSE Raised("TypeError")

\* the fields of the dataclass DetectionResult; image_path has no default
DetectionResultFields ==
    {"image_path", "detections", "violations", "annotated_image",
     "inference_time_ms", "timestamp"}
RequiredFields == {"image_path"}

\* DetectionResult(**kwargs) with the defaults for what is not given
MakeDetectionResult(kwargs) ==
    IF kwargs \subseteq DetectionResultFields /\ RequiredFields \subseteq kwargs
    THEN [status |-> "ok", error |-> "", detections |-> <<>>,
          violations |-> <<>>]
    ELSE Raised("TypeError")

\* the keywords of the "Add empty result" in the except branch
EmptyResultKwargs ==
    {"image_path", "detections", "confidence_threshold", "processing_time"}

\* the loop of detect_batch; acc holds the results so far and the detect
\* calls that completed
RECURSIVE detect_batch(_, _, _, _)
detect_batch(images, kwargs, t, acc) ==
    IF images = <<>>
    THEN [status |-> "ok", error |-> "", results |-> acc.results,
          inferences |-> acc.inferences, violations |-> acc.violations]
    ELSE LET r == detect_kw(Head(images), kwargs, t)
             empty == MakeDetectionResult(EmptyResultKwargs)
         IN  IF r.status = "ok"
             THEN detect_batch(Tail(images), kwargs, t,
                      [results |-> Append(acc.results, r),
                       inferences |-> acc.inferences + 1,
                       violations |-> acc.violations + Len(r.violations)])
             ELSE IF empty.status = "ok"
             THEN detect_batch(Tail(images), kwargs, t,
                      [results |-> Append(acc.results, empty),
                       inferences |-> acc.inferences,
                       violations |-> acc.violations])
             ELSE \* the exception raised in the except branch leaves the call
                  [status |-> "raised", error |-> empty.error, results |-> <<>>,
                   inferences |-> acc.inferences, violations |-> acc.violations]

InitBatch ==
    /\ detections = <<>>
    /\ RuleIdle
    /\ StreamIdle
    /\ DiscIdle
    /\ InfoIdle
    /\ AnnotIdle
    /\ det_in = NoEngineOutput
    /\ det_out = NoReturn
    /\ completed = 0
    /\ batch_in \in [images : Batches, kwargs : BatchKwargs]
    /\ batch_out = NoBatchReturn
    /\ metrics = NoMetrics
    /\ DbIdle
    /\ UrlIdle
    /\ StoreIdle
    /\ ScanIdle
    /\ SessIdle

\* one call of detect_batch
DetectBatch ==
    /\ batch_out = NoBatchReturn
    /\ LET b == detect_batch(batch_in.images, batch_in.kwargs, now,
                             [results |-> <<>>, inferences |-> 0,
                              violations |-> 0])
       IN  /\ batch_out' = [status |-> b.status, error |-> b.error,
                            results |-> b.results]
           /\ total_inferences' = total_inferences + b.inferences
           /\ violations_detected' = violations_detected + b.violations
           /\ completed' = completed + b.inferences
    /\ UNCHANGED <<det_in, det_out, batch_in, metrics>>
    /\ UNCHANGED notDet

NextBatch == DetectBatch

SpecBatch == InitBatch /\ [][NextBatch]_vars

---------------------------------------------------------------------------
(* detect_batch's claims *)

\* the empty DetectionResult that stands for an image whose detection failed
EmptyResult ==
    [status |-> "ok", error |-> "", detections |-> <<>>, violations |-> <<>>]

\* C18: a detect_batch call that has ended has returned one result per
\* image, in the order of the images: the image's DetectionResult where
\* detect succeeded and an empty DetectionResult where it failed.
C18_Claim ==
    batch_out # NoBatchReturn =>
        /\ batch_out.status = "ok"
        /\ Len(batch_out.results) = Len(batch_in.images)
        /\ \A i \in 1..Len(batch_out.results) :
             LET r == detect_kw(batch_in.images[i], batch_in.kwargs, now)
             IN  batch_out.results[i] = IF r.status = "ok" THEN r ELSE EmptyResult

---------------------------------------------------------------------------
(* The database models: users, reports, violations and detection_history,
   and what session.delete does to the rows that reference a deleted row *)

\* how many reports and how many violations the tables hold at most
MaxRows == 2

UserIds == {"u1", "u2"}
ReportIds == {"r" \o ToString(i) : i \in 1..MaxRows}
ViolationIds == {"v" \o ToString(i) : i \in 1..MaxRows}
HistoryIds == {"h1", "h2"}

\* a foreign key column that is NULL
None == "None"

\* a row of reports, of violations and of detection_history, reduced to its
\* foreign key column
ReportRow(user_id) == [user_id |-> user_id]
ViolationRow(report_id) == [report_id |-> report_id]
DetectionHistoryRow(user_id) == [user_id |-> user_id]

DeleteCascades_none(parent, child) == FALSE

\* relationship(..., cascade="all, delete-orphan") on the parent's side
DeleteCascades(parent, child) ==
    <<parent, child>> \in {<<"users", "reports">>,
                          <<"users", "detection_history">>,
                          <<"reports", "violations">>}

\* the rows of a table whose foreign key fk references one of parents
ChildrenOf(rows, fk, parents) ==
    {id \in DOMAIN rows : rows[id][fk] \in parents}

\* a table without the rows ids
Without(rows, ids) == [id \in DOMAIN rows \ ids |-> rows[id]]

\* a table whose references to parents are set to NULL
Orphaned(rows, fk, parents) ==
    [id \in DOMAIN rows |->
        IF rows[id][fk] \in parents THEN [rows[id] EXCEPT ![fk] = None]
                                    ELSE rows[id]]

\* what the unit of work does to a child table when the rows parents of the
\* parent table are deleted: with the delete cascade the children are
\* deleted, without it they are detached from the parent
CascadeTo(parent, child, rows, fk, parents) ==
    IF DeleteCascades(parent, child)
    THEN Without(rows, ChildrenOf(rows, fk, parents))
    ELSE Orphaned(rows, fk, parents)

\* a table with one more row
WithRow(rows, id, row) ==
    [i \in DOMAIN rows \cup {id} |-> IF i = id THEN row ELSE rows[i]]

\* the rows a step deletes from a table
Gone(before, after) == DOMAIN before \ DOMAIN after

\* a session.delete of row id of a table, with the ids of all rows it removed
Deleted(table, id, removed) == [table |-> table, id |-> id, removed |-> removed]

InitDb ==
    /\ detections = <<>>
    /\ RuleIdle
    /\ StreamIdle
    /\ DiscIdle
    /\ InfoIdle
    /\ AnnotIdle
    /\ DetIdle
    /\ DbIdle
    /\ UrlIdle
    /\ StoreIdle
    /\ ScanIdle
    /\ SessIdle

\* get_or_create_user for a Microsoft account that has no row yet
CreateUser ==
    /\ \E u \in UserIds \ users : users' = users \cup {u}
    /\ deleted' = NoDelete
    /\ UNCHANGED <<reports, db_violations, detection_history>>
    /\ UNCHANGED notDb

\* create_report for an existing user
CreateReport ==
    /\ \E r \in ReportIds \ DOMAIN reports : \E u \in users :
         reports' = WithRow(reports, r, ReportRow(u))
    /\ deleted' = NoDelete
    /\ UNCHANGED <<users, db_violations, detection_history>>
    /\ UNCHANGED notDb

\* create_violation(..., report_id: Optional[str] = None)
CreateViolation ==
    /\ \E v \in ViolationIds \ DOMAIN db_violations :
       \E r \in DOMAIN reports \cup {None} :
         db_violations' = WithRow(db_violations, v, ViolationRow(r))
    /\ deleted' = NoDelete
    /\ UNCHANGED <<users, reports, detection_history>>
    /\ UNCHANGED notDb

\* create_detection_history(..., user_id: Optional[str] = None)
CreateDetectionHistory ==
    /\ \E h \in HistoryIds \ DOMAIN detection_history :
       \E u \in users \cup {None} :
         detection_history' =
             WithRow(detection_history, h, DetectionHistoryRow(u))
    /\ deleted' = NoDelete
    /\ UNCHANGED <<users, reports, db_violations>>
    /\ UNCHANGED notDb

\* session.delete(report); session.commit()
DeleteReport ==
    /\ \E r \in DOMAIN reports :
         /\ reports' = Without(reports, {r})
         /\ db_violations' =
                CascadeTo("reports", "violations", db_violations, "report_id", {r})
         /\ deleted' = Deleted("reports", r, {r} \cup Gone(db_violations, db_violations'))
    /\ UNCHANGED <<users, detection_history>>
    /\ UNCHANGED notDb

\* session.delete(user); session.commit()
DeleteUser ==
    /\ \E u \in users :
         LET user_reports == ChildrenOf(reports, "user_id", {u})
         IN  /\ users' = users \ {u}
             /\ reports' = CascadeTo("users", "reports", reports, "user_id", {u})
             /\ db_violations' =
                    IF DeleteCascades("users", "reports")
                    THEN CascadeTo("reports", "violations", db_violations,
                                   "report_id", user_reports)
                    ELSE db_violations
             /\ detection_history' =
                    CascadeTo("users", "detection_history", detection_history,
                              "user_id", {u})
             /\ deleted' =
                    Deleted("users", u,
                            {u} \cup Gone(reports, reports')
                                \cup Gone(db_violations, db_violations')
                                \cup Gone(detection_history, detection_history'))
    /\ UNCHANGED notDb

NextDb ==
    \/ CreateUser
    \/ CreateReport
    \/ CreateViolation
    \/ CreateDetectionHistory
    \/ DeleteReport
    \/ DeleteUser

SpecDb == InitDb /\ [][NextDb]_vars

\* C20: a deletion removes the deleted row and the rows that depend on it,
\* and nothing else: with a report go all of its violations, with a user go
\* all of the user's reports, their violations and the user's
\* detection-history entries; every row that is not removed keeps its
\* columns, so every other report keeps its violations.
C20_Cascade ==
    [][LET goneU == users \ users'
           goneR == Gone(reports, reports')
           goneV == Gone(db_violations, db_violations')
           goneH == Gone(detection_history, detection_history')
       IN  /\ ChildrenOf(db_violations, "report_id", goneR) = goneV
           /\ ChildrenOf(detection_history, "user_id", goneU) = goneH
           /\ ChildrenOf(reports, "user_id", goneU) \subseteq goneR
           /\ goneU = {} => Cardinality(goneR) <= 1
           /\ goneU # {} =>
                  /\ Cardinality(goneU) = 1
                  /\ goneR = ChildrenOf(reports, "user_id", goneU)
           /\ \A r \in DOMAIN reports \ goneR : reports'[r] = reports[r]
           /\ \A v \in DOMAIN db_violations \ goneV :
                  db_violations'[v] = db_violations[v]
           /\ \A h \in DOMAIN detection_history \ goneH :
                  detection_history'[h] = detection_history[h]
      ]_vars

\* a user with a report, a violation of it and a detection-history entry was
\* deleted while the other user has a report with a violation and a
\* detection-history entry
C20_Witness ==
    /\ deleted.table = "users"
    /\ deleted.removed \cap ReportIds # {}
    /\ deleted.removed \cap ViolationIds # {}
    /\ deleted.removed \cap HistoryIds # {}
    /\ \E u \in users :
         /\ \E r \in DOMAIN reports :
              /\ reports[r].user_id = u
              /\ \E v \in DOMAIN db_violations : db_violations[v].report_id = r
         /\ \E h \in DOMAIN detection_history :
              detection_history[h].user_id = u

---------------------------------------------------------------------------
(* DatabaseManager.get_session and health_check: one thread that enters
   get_session blocks one after the other *)

\* how many get_session blocks the thread enters
MaxBlocks == 4

\* what the body of a with-block does with the session: nothing, a query, an
\* insert left to the commit of get_session, or an insert the body commits
Bodies == {"pass", "select", "add", "add_commit"}

\* whether a statement of the body makes the session check a connection out
UsesConnection(body) == body \in {"select", "add_commit"}

\* whether the body can raise: the body's own commit of a row that violates
\* a unique constraint
BodyCanRaise(body) == body = "add_commit"

\* whether session.commit() of get_session can raise: the flush of a pending
\* row that violates a unique constraint
CommitCanRaise(body) == body = "add"

AfterBody_commit(exc) == "commit"

\* try: yield session; session.commit()  except Exception: session.rollback()
AfterBody(exc) == IF exc THEN "rollback" ELSE "commit"

InitSess ==
    /\ detections = <<>>
    /\ RuleIdle
    /\ StreamIdle
    /\ DiscIdle
    /\ InfoIdle
    /\ AnnotIdle
    /\ DetIdle
    /\ DbIdle
    /\ UrlIdle
    /\ StoreIdle
    /\ ScanIdle
    /\ SessIdle

\* session = self.SessionLocal(); yield session
S_Enter ==
    /\ s_pc = "idle"
    /\ blocks < MaxBlocks
    /\ \E body \in Bodies : \E is_health \in BOOLEAN :
         /\ is_health => body = "select"
         /\ s_body' = body
         /\ s_health' = is_health
    /\ s_pc' = "body"
    /\ s_raised' = FALSE
    /\ s_log' = NoSessionLog
    /\ blocks' = blocks + 1
    /\ UNCHANGED <<s_conn, checked_out, raised_blocks, health>>
    /\ UNCHANGED notSess

\* the body of the with-block runs to its end or raises
S_Body ==
    /\ s_pc = "body"
    /\ \E raises \in {FALSE} \cup {BodyCanRaise(s_body)} :
         /\ s_raised' = raises
         /\ s_pc' = AfterBody(raises)
         \* the body's statements begin a transaction on a pooled connection;
         \* a commit of the body that went through gives it back
         /\ IF UsesConnection(s_body) /\ (s_body = "select" \/ raises)
            THEN /\ s_conn' = TRUE
                 /\ checked_out' = checked_out + 1
            ELSE UNCHANGED <<s_conn, checked_out>>
    /\ UNCHANGED <<s_body, s_health, s_log, blocks, raised_blocks, health>>
    /\ UNCHANGED notSess

\* session.commit(): ends the transaction and gives the connection back, or
\* raises from the flush
S_Commit ==
    /\ s_pc = "commit"
    /\ \E raises \in {FALSE} \cup {CommitCanRaise(s_body)} :
         IF raises
         THEN \* the flush took a connection and failed on it
              /\ s_raised' = TRUE
              /\ s_pc' = "rollback"
              /\ s_conn' = TRUE
              /\ checked_out' = IF s_conn THEN checked_out ELSE checked_out + 1
              /\ s_log' = s_log
         ELSE /\ s_raised' = s_raised
              /\ s_pc' = "close"
              /\ s_conn' = FALSE
              /\ checked_out' = IF s_conn THEN checked_out - 1 ELSE checked_out
              /\ s_log' = [s_log EXCEPT !.committed = TRUE]
    /\ UNCHANGED <<s_body, s_health, blocks, raised_blocks, health>>
    /\ UNCHANGED notSess

\* except Exception: session.rollback(); logger.error; raise
S_Rollback ==
    /\ s_pc = "rollback"
    /\ s_conn' = FALSE
    /\ checked_out' = IF s_conn THEN checked_out - 1 ELSE checked_out
    /\ s_log' = [s_log EXCEPT !.rolled_back = TRUE, !.raised = TRUE]
    /\ s_pc' = "close"
    /\ raised_blocks' = raised_blocks + 1
    /\ UNCHANGED <<s_body, s_health, s_raised, blocks, health>>
    /\ UNCHANGED notSess

\* finally: session.close(); then the with statement is left, and
\* health_check returns True, or False from its except
S_Close ==
    /\ s_pc = "close"
    /\ s_conn' = FALSE
    /\ checked_out' = IF s_conn THEN checked_out - 1 ELSE checked_out
    /\ s_log' = [s_log EXCEPT !.closed = TRUE, !.raised = s_raised]
    /\ health' = IF ~s_health THEN health
                 ELSE IF s_raised THEN "False" ELSE "True"
    /\ s_pc' = "idle"
    /\ UNCHANGED <<s_body, s_health, s_raised, blocks, raised_blocks>>
    /\ UNCHANGED notSess

NextSess ==
    \/ S_Enter
    \/ S_Body
    \/ S_Commit
    \/ S_Rollback
    \/ S_Close

SpecSess == InitSess /\ [][NextSess]_vars

\* C21: after any sequence of get_session blocks, each one was committed if
\* its body completed and rolled back if it raised, and was closed in both
\* cases; the pool has as many connections checked out as before the
\* sequence (none), and a health_check made after it returns True.
C21_Claim ==
    (s_pc = "idle" /\ blocks > 0) =>
        /\ s_log.closed
        /\ s_log.raised => (s_log.rolled_back /\ ~s_log.committed)
        /\ ~s_log.raised => (s_log.committed /\ ~s_log.rolled_back)
        /\ checked_out = 0
        /\ ~s_conn
        /\ health # "False"

\* a health_check has returned True as the last of a sequence of blocks of
\* which two raised
C21_Witness ==
    /\ s_pc = "idle"
    /\ raised_blocks = 2
    /\ health = "True"
    /\ s_health
    /\ s_log.committed
    /\ s_log.closed

---------------------------------------------------------------------------
(* The network scans: how many connection attempts are in flight *)

\* how many addresses a scan walks over (range(1, 255) in the code)
MaxScanHosts == 52

\* the scans of the repository, by the function that runs them
Scanners == {"_scan_local_network", "discover_cameras", "scan_network_ports"}

\* whether the scan hands its attempts to a ThreadPoolExecutor; the other
\* two start a threading.Thread per address
UsesPool(scan) == scan = "_scan_local_network"

InitScan ==
    /\ detections = <<>>
    /\ RuleIdle
    /\ StreamIdle
    /\ DiscIdle
    /\ InfoIdle
    /\ AnnotIdle
    /\ DetIdle
    /\ DbIdle
    /\ UrlIdle
    /\ StoreIdle
    /\ ScanIdle
    /\ SessIdle

\* the scan is called
ScanStart ==
    /\ scanner = "none"
    /\ scanner' \in Scanners
    /\ UNCHANGED <<scan_submitted, scan_queued, scan_running>>
    /\ UNCHANGED notScan

\* one turn of the loop over the addresses: executor.submit(check_onvif, ...)
\* puts the attempt on the executor's queue, thread.start() runs it at once
ScanSubmit ==
    /\ scanner # "none"
    /\ scan_submitted < MaxScanHosts
    /\ scan_submitted' = scan_submitted + 1
    /\ IF UsesPool(scanner)
       THEN /\ scan_queued' = scan_queued + 1
            /\ scan_running' = scan_running
       ELSE /\ scan_queued' = scan_queued
            /\ scan_running' = scan_running + 1
    /\ UNCHANGED scanner
    /\ UNCHANGED notScan

\* a worker of the executor, of which there are at most max_workers, takes
\* an attempt off the queue
WorkerTakes ==
    /\ UsesPool(scanner)
    /\ scan_queued > 0
    /\ scan_running < max_workers
    /\ scan_queued' = scan_queued - 1
    /\ scan_running' = scan_running + 1
    /\ UNCHANGED <<scanner, scan_submitted>>
    /\ UNCHANGED notScan

\* a connection attempt returns
AttemptReturns ==
    /\ scan_running > 0
    /\ scan_running' = scan_running - 1
    /\ UNCHANGED <<scanner, scan_submitted, scan_queued>>
    /\ UNCHANGED notScan

NextScan ==
    \/ ScanStart
    \/ ScanSubmit
    \/ WorkerTakes
    \/ AttemptReturns

SpecScan == InitScan /\ [][NextScan]_vars

\* C24: every scan issues its connection attempts through a pool of fixed
\* size, so no more than max_workers (50) attempts are in flight at any
\* moment.
C24_Claim == scan_running <= max_workers

---------------------------------------------------------------------------
(* The video loop's store of violations: "Store violations with timestamp" *)

\* how many frames of the video are processed
MaxStoreFrames == 2

\* cap.get(cv2.CAP_PROP_FPS), in frames per second
VideoFps == {1, 30}

\* f"{int(timestamp//60):02d}:{int(timestamp%60):02d}" of frame_count / fps
MinSec(frame, fps) == <<(frame \div fps) \div 60, (frame \div fps) % 60>>

\* violation['frame'] = frame_count; violation['timestamp'] = ...: the dict
\* after the two assignments
Stored(violation, frame, fps) ==
    [k \in DOMAIN violation \cup {"frame"} |->
        IF k = "frame" THEN frame
        ELSE IF k = "timestamp" THEN MinSec(frame, fps)
        ELSE violation[k]]

\* for violation in results.violations: the list after the loop's body has
\* run on each of its dicts
StoredAll(held, frame, fps) ==
    [i \in 1..Len(held) |-> Stored(held[i], frame, fps)]

InitStore ==
    /\ detections = <<>>
    /\ RuleIdle
    /\ StreamIdle
    /\ DiscIdle
    /\ InfoIdle
    /\ AnnotIdle
    /\ DetIdle
    /\ DbIdle
    /\ UrlIdle
    /\ StoreIdle
    /\ ScanIdle
    /\ SessIdle

\* the video is opened
StoreOpen ==
    /\ st_pc = "idle"
    /\ st_fps' \in VideoFps
    /\ st_pc' = "read"
    /\ UNCHANGED <<st_frame, st_created, st_held, all_violations>>
    /\ UNCHANGED notStore

\* a frame is read and results = detector.detect(frame): the rule engine
\* creates the violations of the DetectionResult
StoreDetect ==
    /\ st_pc = "read"
    /\ st_frame < MaxStoreFrames
    /\ st_frame' = st_frame + 1
    /\ \E dets \in DetectionLists : \E t \in Ticks :
         /\ st_created' = check_violations(dets, t, t)
         /\ st_held' = check_violations(dets, t, t)
    /\ st_pc' = "store"
    /\ UNCHANGED <<st_fps, all_violations>>
    /\ UNCHANGED notStore

\* if results.has_violations: every dict of results.violations is written to
\* and appended to all_violations; the list of the result holds the same dicts
StoreViolations ==
    /\ st_pc = "store"
    /\ IF Len(st_held) > 0
       THEN /\ st_held' = StoredAll(st_held, st_frame, st_fps)
            /\ all_violations' =
                   all_violations \o StoredAll(st_held, st_frame, st_fps)
       ELSE UNCHANGED <<st_held, all_violations>>
    /\ st_pc' = "read"
    /\ UNCHANGED <<st_frame, st_fps, st_created>>
    /\ UNCHANGED notStore

NextStore ==
    \/ StoreOpen
    \/ StoreDetect
    \/ StoreViolations

SpecStore == InitStore /\ [][NextStore]_vars

\* C26: the violations a DetectionResult holds are never modified after the
\* rule engine created them: no field is added or changed by the loop that
\* stores them.
C26_Claim == st_held = st_created

---------------------------------------------------------------------------
(* Stream URLs: _extract_rtsp_suffix and _build_rtsp_url of get_camera_info,
   and RTSPCamera.connect.  URLs are tuples of characters. *)

Text_rtsp == <<"r","t","s","p",":","/","/">>
Text_554 == <<"5","5","4">>
DigitChars == {"0", "1", "2", "3", "4", "5", "6", "7", "8", "9"}

\* the addresses, user names and passwords of the cameras of the model
CameraAddresses == {<<"1","0",".","0",".","0",".","7">>, <<"1","0",".","0",".","0",".","9">>}
UserNames == {<<"a","d","m","i","n">>, <<"u">>}
Passwords == {<<"p","w">>, <<"1","2">>}

\* str(uri.Uri): what a device at address ip may answer to GetStreamUri,
\* with or without credentials, port and path
DeviceUris(ip) ==
    { Text_rtsp \o ip \o <<":","5","5","4","/","s","1">>,
      Text_rtsp \o ip \o <<"/","s","1">>,
      Text_rtsp \o ip \o <<":","8","5","5","4","/","l","i","v","e","/","c","h","0">>,
      Text_rtsp \o <<"a",":","b","@">> \o ip \o <<":","5","5","4","/","s","1">>,
      Text_rtsp \o ip \o <<":","5","5","4">>,
      Text_rtsp \o ip \o <<":","5","5","4","/">>,
      Text_rtsp \o <<"a",":","b","@">> \o ip \o <<":","5","5","4">> }

\* s.startswith(p)
StartsWith(p, s) == Len(s) >= Len(p) /\ SubSeq(s, 1, Len(p)) = p

\* whether p occurs in s at index i
OccursAt(p, s, i) ==
    i >= 1 /\ i + Len(p) - 1 <= Len(s) /\ SubSeq(s, i, i + Len(p) - 1) = p

\* the first index from which on c occurs in s, 0 if it does not
FirstChar(c, s, from) ==
    LET at == {k \in from..Len(s) : s[k] = c}
    IN  IF at = {} THEN 0 ELSE CHOOSE k \in at : \A l \in at : k <= l

\* the text of s from index i on
From(s, i) == IF i > Len(s) THEN <<>> ELSE SubSeq(s, i, Len(s))

\* where rtsp://[^@]+@ matches in s: rtsp:// at i, then at least one
\* character that is not @, then the first @
CredentialMatches(s) ==
    {i \in 1..Len(s) : /\ OccursAt(Text_rtsp, s, i)
                       /\ FirstChar("@", s, i + 7) >= i + 8}

\* re.sub(r'rtsp://[^@]+@', 'rtsp://', rtsp_url)
RECURSIVE StripCredentials(_)
StripCredentials(s) ==
    IF CredentialMatches(s) = {} THEN s
    ELSE LET i == CHOOSE k \in CredentialMatches(s) :
                      \A l \in CredentialMatches(s) : k <= l
             j == FirstChar("@", s, i + 7)
         IN  (IF i = 1 THEN <<>> ELSE SubSeq(s, 1, i - 1))
             \o Text_rtsp \o StripCredentials(From(s, j + 1))

\* where rtsp://[^/]+/(.+) matches in s: rtsp:// at i, at least one
\* character that is not /, the first /, and at least one character more
PathMatches(s) ==
    {i \in 1..Len(s) : /\ OccursAt(Text_rtsp, s, i)
                       /\ FirstChar("/", s, i + 7) >= i + 8
                       /\ FirstChar("/", s, i + 7) < Len(s)}

\* ONVIFDiscovery._extract_rtsp_suffix
extract_rtsp_suffix(rtsp_url) ==
    LET url == StripCredentials(rtsp_url)
    IN  IF PathMatches(url) = {} THEN rtsp_url
        ELSE LET i == CHOOSE k \in PathMatches(url) :
                          \A l \in PathMatches(url) : k <= l
             IN  From(url, FirstChar("/", url, i + 7) + 1)

\* how many digits s holds from index i on
RECURSIVE DigitRun(_, _)
DigitRun(s, i) ==
    IF i <= Len(s) /\ s[i] \in DigitChars THEN 1 + DigitRun(s, i + 1) ELSE 0

\* where :(\d+)/ matches in s
PortMatches(s) ==
    {i \in 1..Len(s) : /\ s[i] = ":"
                       /\ DigitRun(s, i + 1) >= 1
                       /\ i + DigitRun(s, i + 1) + 1 <= Len(s)
                       /\ s[i + DigitRun(s, i + 1) + 1] = "/"}

\* str(int(digits)): without leading zeros
RECURSIVE IntText(_)
IntText(digits) ==
    IF Len(digits) > 1 /\ Head(digits) = "0" THEN IntText(Tail(digits))
    ELSE digits

\* ONVIFDiscovery._build_rtsp_url(ip, username, password, suffix), port=554
build_rtsp_url(ip, username, password, suffix) ==
    LET is_url == StartsWith(Text_rtsp, suffix)
        port == IF is_url /\ PortMatches(suffix) # {}
                THEN LET i == CHOOSE k \in PortMatches(suffix) :
                                  \A l \in PortMatches(suffix) : k <= l
                     IN  IntText(SubSeq(suffix, i + 1, i + DigitRun(suffix, i + 1)))
                ELSE Text_554
        path == IF is_url THEN extract_rtsp_suffix(suffix) ELSE suffix
        slashed == IF StartsWith(<<"/">>, path) THEN path ELSE <<"/">> \o path
    IN  Text_rtsp \o username \o <<":">> \o password \o <<"@">> \o ip
            \o <<":">> \o port \o slashed

\* urlparse(url).netloc and .path of an rtsp URL without query or fragment
Netloc(url) ==
    LET slash == FirstChar("/", url, 8)
    IN  IF slash = 0 THEN From(url, 8) ELSE SubSeq(url, 8, slash - 1)

UrlPath(url) ==
    LET slash == FirstChar("/", url, 8)
    IN  IF slash = 0 THEN <<>> ELSE From(url, slash)

\* the index of the last c of s, 0 if there is none
LastChar(c, s) ==
    LET at == {k \in 1..Len(s) : s[k] = c}
    IN  IF at = {} THEN 0 ELSE CHOOSE k \in at : \A l \in at : k >= l

\* parsed.hostname and parsed.port or 554
HostPort(netloc) == From(netloc, LastChar("@", netloc) + 1)
Hostname(netloc) ==
    LET hp == HostPort(netloc)
        colon == FirstChar(":", hp, 1)
    IN  Lower(IF colon = 0 THEN hp ELSE SubSeq(hp, 1, colon - 1))
PortOr554(netloc) ==
    LET hp == HostPort(netloc)
        colon == FirstChar(":", hp, 1)
    IN  IF colon = 0 \/ colon = Len(hp) THEN Text_554
        ELSE IntText(From(hp, colon + 1))

\* RTSPCamera.connect: self.auth_url
connect_url(url, username, password) ==
    IF username # <<>> /\ password # <<>>
    THEN Text_rtsp \o username \o <<":">> \o password \o <<"@">>
             \o Hostname(Netloc(url)) \o <<":">> \o PortOr554(Netloc(url))
             \o UrlPath(url)
    ELSE url

InitUrl ==
    /\ detections = <<>>
    /\ RuleIdle
    /\ StreamIdle
    /\ DiscIdle
    /\ InfoIdle
    /\ AnnotIdle
    /\ DetIdle
    /\ DbIdle
    /\ UrlIdle
    /\ StoreIdle
    /\ ScanIdle
    /\ SessIdle

\* get_camera_info(ip, port, user, password) is called and the device
\* answers GetStreamUri
UrlGetStreamUri ==
    /\ u_pc = "idle"
    /\ \E ip \in CameraAddresses : \E user \in UserNames :
       \E password \in Passwords : \E uri \in DeviceUris(ip) :
         /\ cam_ip' = ip
         /\ cam_user' = user
         /\ cam_password' = password
         /\ device_uri' = uri
    /\ u_pc' = "uri"
    /\ UNCHANGED <<complete_url, auth_url>>
    /\ UNCHANGED notUrl

\* suffix = self._extract_rtsp_suffix(rtsp_url);
\* complete_url = self._build_rtsp_url(ip, user, password, suffix)
UrlResolve ==
    /\ u_pc = "uri"
    /\ complete_url' = build_rtsp_url(cam_ip, cam_user, cam_password,
                                      extract_rtsp_suffix(device_uri))
    /\ u_pc' = "resolved"
    /\ UNCHANGED <<cam_ip, cam_user, cam_password, device_uri, auth_url>>
    /\ UNCHANGED notUrl

\* RTSPCamera(rtsp_url, username, password).connect() on the resolved URL
UrlConnect ==
    /\ u_pc = "resolved"
    /\ auth_url' = connect_url(complete_url, cam_user, cam_password)
    /\ u_pc' = "opened"
    /\ UNCHANGED <<cam_ip, cam_user, cam_password, device_uri, complete_url>>
    /\ UNCHANGED notUrl

NextUrl ==
    \/ UrlGetStreamUri
    \/ UrlResolve
    \/ UrlConnect

SpecUrl == InitUrl /\ [][NextUrl]_vars

\* url is rtsp://{user}:{password}@{ip}:{port}{path}: the credentials come
\* once, the port is a number, the path starts with a single / and holds
\* no URL of its own
HasForm(url, ip, user, password) ==
    LET head == Text_rtsp \o user \o <<":">> \o password \o <<"@">> \o ip
                    \o <<":">>
        digits == DigitRun(url, Len(head) + 1)
        path == From(url, Len(head) + digits + 1)
    IN  /\ StartsWith(head, url)
        /\ digits >= 1
        /\ StartsWith(<<"/">>, path)
        /\ ~StartsWith(<<"/", "/">>, path)
        /\ ~Contains(<<"@">>, path)
        /\ ~Contains(Text_rtsp, path)

\* C27: every stream URL that stream resolution produces and the network
\* source opens is rtsp://{user}:{password}@{ip}:{port}{path}, with the
\* credentials once and a path that starts with a single /, whatever URI
\* the device returned.
C27_Claim ==
    /\ u_pc \in {"resolved", "opened"}
           => HasForm(complete_url, cam_ip, cam_user, cam_password)
    /\ u_pc = "opened" => HasForm(auth_url, cam_ip, cam_user, cam_password)

====
